---- MODULE Spec2Model ----
(***************************************************************************)
(* Outbound (L2 -> L1) message tracking of the arbitrum-sdk:               *)
(* L2ToL1MessageReader / L2ToL1MessageWriter of                            *)
(* src/lib/message/L2ToL1Message.ts, run against a rollup whose assertions *)
(* are confirmed over time and an outbox that records executed messages.   *)
(* One message instance is shared by several asynchronous calls; a call    *)
(* advances by one step per awaited chain query.                           *)
(***************************************************************************)
EXTENDS Integers, Sequences, FiniteSets, TLC

\* ---------------------------------------------------------------- bounds
MaxNodes == 2        \* assertions the rollup confirms in one behaviour
MaxCount == 2        \* largest send count an origin-chain block reports
MaxPos == 1          \* largest position of the tracked message
MaxWindows == 1      \* how many search windows the L1 head may advance by
MaxLogs == 3         \* L2ToL1Transaction logs one search fetches
MaxIndex == 2        \* largest indexInBatch of a log
MaxRegistrations == 2 \* addCustomNetwork / addCustomChain calls in one run
MaxLookupRegistrations == 1 \* such calls ahead of the lookups of one run
MaxData == 2         \* bytes of calldata a ticket carries

\* ---------------------------------------------------- program constants
\* Math.floor((4 * 7 * 24 * 60 * 60) / 14): blocks searched for NodeConfirmed
WindowBlocks == 172800

\* enum L2ToL1MessageStatus
NOT_FOUND == 0
UNCONFIRMED == 1
CONFIRMED == 2
EXECUTED == 3

\* public async waitUntilReadyToExecute(retryDelay = 500, ...)
DefaultRetryDelay == 500

\* the asynchronous calls in progress on the one message instance: a caller
\* that awaits each call before its next one uses "a" alone
Calls == {"a", "b"}
Awaited == {"a"}

\* public operations of L2ToL1MessageReader / L2ToL1MessageWriter
Ops == {"status", "getOutboxProof", "waitUntilReadyToExecute", "execute"}

VARIABLES
    nodes,          \* rollup: confirmed assertions, nodes[n] is node number n
    l1BlockNumber,  \* L1 head
    spent,          \* outbox.spent(event.position)
    event,          \* L2ToL1Message.event
    sendRootHash,   \* L2ToL1MessageReader.sendRootHash
    sendRootSize,   \* L2ToL1MessageReader.sendRootSize
    call,           \* per call: position in the code and its locals
    maxStatus,      \* history: highest status any status() has returned
    l1SignerOrProvider, \* what fromEvent was given: "signer" or "provider"
    emitted,        \* ArbSys emitted the event the instance was built from
    logsCall,       \* a call of L2ToL1Message.getL2ToL1MessageLogs
    heap,           \* the descriptor objects, by reference
    l1Networks,     \* networks.ts tables: chain id -> reference
    l2Networks,
    parentChains,
    chains,
    regCall,        \* the last addCustomNetwork / addCustomChain call
    lookup,         \* the last getL1Network / ... / getChain call
    fees,           \* the fee levels the networks report
    request,        \* the last getDepositRequest call and what it returned
    revert,         \* the last contract call that can revert, and its parse
    ticket,         \* a retryable ticket, the L2 clock, the last call on it
    bridgerCall,    \* the last call on an EthBridger and what it did
    rpcCall         \* the last call of a wrapper of RPCServer

\* the module state of networks.ts and the calls on it
registryVars == <<heap, l1Networks, l2Networks, parentChains, chains,
                  regCall, lookup>>

\* retryable tickets: their creation, fee estimate, revert data and life
retryableVars == <<fees, request, revert, ticket>>

\* EthBridger and the wrappers of RPCServer: neither keeps state of its own
wrapperVars == <<bridgerCall, rpcCall>>

vars == <<nodes, l1BlockNumber, spent, event, sendRootHash, sendRootSize,
          call, maxStatus, l1SignerOrProvider, emitted, logsCall,
          registryVars, retryableVars, wrapperVars>>

\* what the operations on a message instance leave alone
restVars == <<l1SignerOrProvider, emitted, logsCall, registryVars,
              retryableVars, wrapperVars>>

\* ------------------------------------------------------------ the chain
\* the send root of an outbox tree of the given size (an injective hash)
RootAtSize(n) == <<"sendRoot", n>>

\* a root no outbox tree has: what an out-of-sync L2 client reports
BadRoot == <<"sendRoot", -1>>

\* private sendRootHash?: string  -- undefined
NoHash == <<>>
\* private sendRootSize?: BigNumber -- undefined
NoSize == -1

NoLog == [nodeNum |-> 0, sendRoot |-> NoHash, blockHash |-> 0]
NoBlock == [sendRoot |-> NoHash, sendCount |-> -1]
NoProof == [size |-> -1, leaf |-> -1]
NoErr == [kind |-> "", msg |-> "", attempted |-> -1, required |-> -1]
\* no wait(ms) requested yet
NoDelay == -1

\* the retry delays a caller passes: none (the default applies) or its own
RetryDelays == {DefaultRetryDelay, 2 * DefaultRetryDelay}

\* the NodeConfirmed(nodeNum, blockHash, sendRoot) log emitted for node n
NodeConfirmedLog(n) ==
    [nodeNum |-> n, sendRoot |-> nodes[n].sendRoot, blockHash |-> n]

LastCount == IF Len(nodes) = 0 THEN 0 ELSE nodes[Len(nodes)].sendCount

Max(a, b) == IF a >= b THEN a ELSE b

NewCall ==
    [pc |-> "idle", op |-> "", fn |-> "",
     latestConfirmedNode |-> -1,
     parsedLog |-> NoLog, l2Block |-> NoBlock,
     spent |-> FALSE, status |-> NOT_FOUND, proof |-> NoProof,
     err |-> NoErr,
     retryDelay |-> NoDelay, delay |-> NoDelay, cancelled |-> FALSE]

\* an optional argument left out
Undefined == -1

NewLogsCall ==
    [pc |-> "idle", indexInBatch |-> Undefined, events |-> <<>>,
     result |-> <<>>, err |-> NoErr]

\* ------------------------------------------------ the network tables
\* a descriptor with the fields the registration functions read or write;
\* an absent partnerChainIDs is the empty list, an absent number Undefined
L1Network(id, partners) ==
    [chainID |-> id, isCustom |-> FALSE, isArbitrum |-> FALSE,
     partnerChainID |-> Undefined, partnerChainIDs |-> partners]

L2Network(id, partner) ==
    [chainID |-> id, isCustom |-> FALSE, isArbitrum |-> TRUE,
     partnerChainID |-> partner, partnerChainIDs |-> <<>>]

\* export const l1Networks = { 1, 1338, 5, 11155111 }
BuiltinL1Networks ==
    {L1Network(1, <<42161, 42170>>), L1Network(1338, <<42161>>),
     L1Network(5, <<421613>>), L1Network(11155111, <<421614>>)}

\* export const l2Networks = { 42161, 421613, 42170, 421614 }
BuiltinL2Networks ==
    {L2Network(42161, 1), L2Network(421613, 5), L2Network(42170, 1),
     L2Network(421614, 11155111)}

\* the object of a built-in descriptor, of an argument of registration call
\* n, and of the parent entry that call builds from l2Networks
BuiltinRef(id) == <<"builtin", id, "">>
ArgRef(n, role) == <<"call", n, role>>

\* a table as the function from the ids present to the stored references
Table(descriptors) ==
    [id \in {d.chainID : d \in descriptors} |-> BuiltinRef(id)]

Put(table, id, ref) ==
    [x \in DOMAIN table \cup {id} |-> IF x = id THEN ref ELSE table[x]]

\* function getL2ParentChains: the L2 networks that list partner chains
getL2ParentChains(objects, _l2Networks) ==
    [id \in {x \in DOMAIN _l2Networks :
                Len(objects[_l2Networks[x]].partnerChainIDs) > 0}
        |-> _l2Networks[id]]

\* { ...a, ...b }
SpreadTables(a, b) ==
    [id \in DOMAIN a \cup DOMAIN b |-> IF id \in DOMAIN b THEN b[id] ELSE a[id]]

\* an optional descriptor argument left out, a table entry not there
NoNetwork == <<>>

\* {}: what { ...undefined } evaluates to
EmptyObject ==
    [chainID |-> Undefined, isCustom |-> FALSE, isArbitrum |-> FALSE,
     partnerChainID |-> Undefined, partnerChainIDs |-> <<>>]

NoRegErr == [kind |-> "", msg |-> "", chainID |-> Undefined]

ArbSdkError(m, id) == [kind |-> "ArbSdkError", msg |-> m, chainID |-> id]

NewRegCall ==
    [n |-> 0, fn |-> "", parent |-> NoNetwork, child |-> NoNetwork,
     err |-> NoRegErr]

NewLookup ==
    [fn |-> "", chainID |-> Undefined, network |-> NoNetwork, err |-> NoRegErr,
     provider |-> <<>>]

\* networks.ts as loaded: parentChains and chains hold the same objects as
\* l1Networks and l2Networks
RegistryInit ==
    /\ heap = [r \in {BuiltinRef(d.chainID) :
                        d \in BuiltinL1Networks \cup BuiltinL2Networks} |->
                 CHOOSE d \in BuiltinL1Networks \cup BuiltinL2Networks :
                     BuiltinRef(d.chainID) = r]
    /\ l1Networks = Table(BuiltinL1Networks)
    /\ l2Networks = Table(BuiltinL2Networks)
    /\ parentChains =
          SpreadTables(Table(BuiltinL1Networks),
                       getL2ParentChains(
                          [r \in {BuiltinRef(d.chainID) :
                                     d \in BuiltinL2Networks} |->
                             CHOOSE d \in BuiltinL2Networks :
                                 BuiltinRef(d.chainID) = r],
                          Table(BuiltinL2Networks)))
    /\ chains = Table(BuiltinL2Networks)
    /\ regCall = NewRegCall
    /\ lookup = NewLookup

\* ------------------------------------------------- retryable tickets
\* null, and a field or an argument that is not there
Null == <<>>

\* the fee levels the estimator reads: the L2 gas price, the gas the dry
\* run of the call uses, the submission fee the inbox prices the calldata at
NetworkFees ==
    [gasPrice : {2, 3}, gasEstimate : {100}, submissionFee : {1000, 2000}]

RetryableInit ==
    /\ fees = [gasPrice |-> 2, gasEstimate |-> 100, submissionFee |-> 1000]
    /\ request = Null
    /\ revert = [func |-> "", fees |-> Null, submitted |-> Null,
                 error |-> Null, parsed |-> Null, threw |-> FALSE,
                 tried |-> FALSE]
    /\ ticket = [state |-> "queued", createdAt |-> 0, now |-> 0,
                 call |-> [n |-> 0, op |-> "", result |-> "", error |-> "",
                           submitted |-> FALSE]]

\* the class of the instance fromEvent returns, the ternary swapped
FromEventSwapped(signerOrProvider) ==
    IF signerOrProvider = "signer"
    THEN "L2ToL1MessageReader" ELSE "L2ToL1MessageWriter"

\* the class of the instance fromEvent returns
FromEvent(signerOrProvider) ==
    IF signerOrProvider = "signer"
    THEN "L2ToL1MessageWriter" ELSE "L2ToL1MessageReader"

\* an instance built by fromEvent from a signer or from a provider
InitFromEvent ==
    /\ nodes = <<>>
    /\ l1BlockNumber = 0
    /\ spent = FALSE
    /\ event \in [position : 0..MaxPos]
    /\ l1SignerOrProvider \in {"signer", "provider"}
    /\ emitted = TRUE
    /\ sendRootHash = NoHash
    /\ sendRootSize = NoSize
    /\ call = [c \in Calls |-> NewCall]
    /\ maxStatus = NOT_FOUND
    /\ logsCall = NewLogsCall
    /\ RegistryInit
    /\ RetryableInit
    /\ bridgerCall = [fn |-> "", err |-> "", l2Network |-> Null,
                      params |-> Null, sent |-> <<>>, txRequest |-> Null]
    /\ rpcCall = [err |-> Null, before |-> Null, method |-> "",
                  reply |-> Null, ret |-> Null, returned |-> Null]

\* an instance built from an event ArbSys emitted or from one it did not
InitAnyEvent ==
    /\ nodes = <<>>
    /\ l1BlockNumber = 0
    /\ spent = FALSE
    /\ event \in [position : 0..MaxPos]
    /\ l1SignerOrProvider = "signer"
    /\ emitted \in BOOLEAN
    /\ sendRootHash = NoHash
    /\ sendRootSize = NoSize
    /\ call = [c \in Calls |-> NewCall]
    /\ maxStatus = NOT_FOUND
    /\ logsCall = NewLogsCall
    /\ RegistryInit
    /\ RetryableInit
    /\ bridgerCall = [fn |-> "", err |-> "", l2Network |-> Null,
                      params |-> Null, sent |-> <<>>, txRequest |-> Null]
    /\ rpcCall = [err |-> Null, before |-> Null, method |-> "",
                  reply |-> Null, ret |-> Null, returned |-> Null]

\* an instance built with a signer from an emitted event
Init ==
    /\ nodes = <<>>
    /\ l1BlockNumber = 0
    /\ spent = FALSE
    /\ event \in [position : 0..MaxPos]
    /\ l1SignerOrProvider = "signer"
    /\ emitted = TRUE
    /\ sendRootHash = NoHash
    /\ sendRootSize = NoSize
    /\ call = [c \in Calls |-> NewCall]
    /\ maxStatus = NOT_FOUND
    /\ logsCall = NewLogsCall
    /\ RegistryInit
    /\ RetryableInit
    /\ bridgerCall = [fn |-> "", err |-> "", l2Network |-> Null,
                      params |-> Null, sent |-> <<>>, txRequest |-> Null]
    /\ rpcCall = [err |-> Null, before |-> Null, method |-> "",
                  reply |-> Null, ret |-> Null, returned |-> Null]

\* ------------------------------------------------------------- failures
Error(m) == [kind |-> "Error", msg |-> m, attempted |-> -1, required |-> -1]

ArbTsError(m) ==
    [kind |-> "ArbTsError", msg |-> m, attempted |-> -1, required |-> -1]

\* the message names the required status in both places
CannotExecuteErrorRequiredTwice(status) ==
    [kind |-> "ArbTsError",
     msg |-> "Cannot execute message. Status is: ${status} but must be ${L2ToL1MessageStatus.CONFIRMED}.",
     attempted |-> CONFIRMED, required |-> CONFIRMED]

\* `Cannot execute message. Status is: ${status} but must be ${CONFIRMED}.`
CannotExecuteError(status) ==
    [kind |-> "ArbTsError",
     msg |-> "Cannot execute message. Status is: ${status} but must be ${L2ToL1MessageStatus.CONFIRMED}.",
     attempted |-> status, required |-> CONFIRMED]

Fail(r, e) == [r EXCEPT !.pc = "failed", !.err = e]

\* the sendRootSize check left out
ProofRequestUnchecked(r, size) ==
    [r EXCEPT !.pc = "constructOutboxProof", !.fn = "getOutboxProof",
              !.proof = [size |-> size, leaf |-> event.position]]

\* the proof asked for the latest confirmed tree size, not the cached one
ProofRequestLatestSize(r, size) ==
    IF size = NoSize
    THEN Fail(r, ArbTsError("Node not confirmed, cannot get proof."))
    ELSE [r EXCEPT !.pc = "constructOutboxProof", !.fn = "getOutboxProof",
                   !.proof = [size |-> LastCount, leaf |-> event.position]]

\* ----------------------------------------- the code between two awaits
\* getOutboxProof once updateSendRoot has returned: the check of
\* sendRootSize, then the constructOutboxProof request with its arguments
ProofRequest(r, size) ==
    IF size = NoSize
    THEN Fail(r, ArbTsError("Node not confirmed, cannot get proof."))
    ELSE [r EXCEPT !.pc = "constructOutboxProof", !.fn = "getOutboxProof",
                   !.proof = [size |-> size, leaf |-> event.position]]

\* getOutboxProof up to its first await
EnterGetOutboxProof(r, hash, size) ==
    IF hash # NoHash
    THEN ProofRequest(r, size)
    ELSE [r EXCEPT !.pc = "latestConfirmed", !.fn = "getOutboxProof",
                   !.latestConfirmedNode = -1,
                   !.parsedLog = NoLog, !.l2Block = NoBlock]

\* updateSendRoot without its early return on a cached root
EnterStatusAlwaysResolve(r, hash) ==
    [r EXCEPT !.fn = "status", !.pc = "latestConfirmed",
              !.latestConfirmedNode = -1,
              !.parsedLog = NoLog, !.l2Block = NoBlock,
              !.spent = FALSE, !.status = NOT_FOUND]

\* status up to its first await
EnterStatus(r, hash) ==
    LET r0 == [r EXCEPT !.fn = "status",
                        !.latestConfirmedNode = -1,
                        !.parsedLog = NoLog, !.l2Block = NoBlock,
                        !.spent = FALSE, !.status = NOT_FOUND]
    IN  IF hash # NoHash
        THEN [r0 EXCEPT !.pc = "spent"]
        ELSE [r0 EXCEPT !.pc = "latestConfirmed"]

\* the loop polls again at once
RetryWithoutDelay(r, hash) == EnterStatus(r, hash)

\* the else branch of waitUntilReadyToExecute up to its await:
\* wait(retryDelay) is requested
Retry(r, hash) == [r EXCEPT !.pc = "wait", !.delay = r.retryDelay]

\* the wait returns on any status
ReadyStatusesAny == {UNCONFIRMED, CONFIRMED, EXECUTED}

\* the wait goes on until the message is executed
ReadyStatusesExecutedOnly == {EXECUTED}

\* the statuses on which waitUntilReadyToExecute returns
ReadyStatuses == {CONFIRMED, EXECUTED}

\* the wrong member of the enum
ExecutableStatusExecuted == EXECUTED

\* the status on which execute goes on to submit
ExecutableStatus == CONFIRMED

\* what the caller of status() does with the status s it is handed
StatusReturned(r, s, hash, size) ==
    LET r1 == [r EXCEPT !.status = s]
    IN  CASE r.op = "status" -> [r1 EXCEPT !.pc = "done"]
          [] r.op = "waitUntilReadyToExecute" ->
                IF s \in ReadyStatuses
                THEN [r1 EXCEPT !.pc = "done"]
                ELSE Retry(r1, hash)
          [] OTHER ->
                IF s # ExecutableStatus
                THEN Fail(r1, CannotExecuteError(s))
                ELSE EnterGetOutboxProof(r1, hash, size)

\* the caller of updateSendRoot once it has returned, the cache being
\* (hash, size) by then
UpdateSendRootReturned(r, hash, size) ==
    IF r.fn = "status"
    THEN IF hash = NoHash
         THEN StatusReturned(r, UNCONFIRMED, hash, size)
         ELSE [r EXCEPT !.pc = "spent"]
    ELSE ProofRequest(r, size)

Idle(c) == call[c].pc \in {"idle", "done", "failed"}

chainVars == <<nodes, l1BlockNumber, spent, event>>
cacheVars == <<sendRootHash, sendRootSize>>

\* ------------------------------------------------ invoking an operation
Status(c) ==
    /\ Idle(c)
    /\ call' = [call EXCEPT ![c] =
                  EnterStatus([NewCall EXCEPT !.op = "status"], sendRootHash)]
    /\ UNCHANGED <<chainVars, cacheVars, maxStatus, restVars>>

GetOutboxProof(c) ==
    /\ Idle(c)
    /\ call' = [call EXCEPT ![c] =
                  EnterGetOutboxProof([NewCall EXCEPT !.op = "getOutboxProof"],
                                      sendRootHash, sendRootSize)]
    /\ UNCHANGED <<chainVars, cacheVars, maxStatus, restVars>>

WaitUntilReadyToExecute(c) ==
    /\ Idle(c)
    /\ \E retryDelay \in RetryDelays :
         call' = [call EXCEPT ![c] =
                    EnterStatus([NewCall EXCEPT
                                    !.op = "waitUntilReadyToExecute",
                                    !.retryDelay = retryDelay],
                                sendRootHash)]
    /\ UNCHANGED <<chainVars, cacheVars, maxStatus, restVars>>

\* execute is a method of L2ToL1MessageWriter alone
Execute(c) ==
    /\ FromEvent(l1SignerOrProvider) = "L2ToL1MessageWriter"
    /\ Idle(c)
    /\ call' = [call EXCEPT ![c] =
                  EnterStatus([NewCall EXCEPT !.op = "execute"], sendRootHash)]
    /\ UNCHANGED <<chainVars, cacheVars, maxStatus, restVars>>

\* ------------------------------------- updateSendRoot, query by query
\* A step ends at the await of a query that reads state another step can
\* change.  getL2Network reads no chain state and getLogs reads only the
\* logs of one node, which never change once emitted, so each shares the
\* step of the query next to it.

\* getNetwork: throw new ArbSdkError(`Unrecognized network ${chainID}.`)
UnrecognizedNetwork ==
    [Error("Unrecognized network ${chainID}.") EXCEPT !.kind = "ArbSdkError"]

\* await getL2Network(l2Provider): the provider's chain id is in the network
\* tables or the lookup rejects; then await rollup['latestConfirmed']()
LatestConfirmed(c) ==
    /\ call[c].pc = "latestConfirmed"
    /\ \E known \in BOOLEAN :
         call' = [call EXCEPT ![c] =
                    IF known
                    THEN [@ EXCEPT !.pc = "getLogs",
                                   !.latestConfirmedNode = Len(nodes)]
                    ELSE Fail(@, UnrecognizedNetwork)]
    /\ UNCHANGED <<chainVars, cacheVars, maxStatus, restVars>>

\* the search starts at genesis
FromBlockGenesis(currentBlock) == 0

\* fromBlock of the NodeConfirmed search
FromBlock(currentBlock) == Max(currentBlock - WindowBlocks, 0)

\* the NodeConfirmed logs of node nodeNum in [fromBlock, 'latest']
MatchingLogs(nodeNum, fromBlock) ==
    {n \in 1..Len(nodes) : /\ n = nodeNum
                           /\ nodes[n].l1Block >= fromBlock
                           /\ nodes[n].l1Block <= l1BlockNumber}

\* logs.length !== 1
LogsRejected(logs) == Cardinality(logs) # 1

\* await l1Provider.getBlockNumber(), await l1Provider.getLogs(...), the
\* length check, parseLog
GetLogs(c) ==
    /\ call[c].pc = "getLogs"
    /\ LET currentBlock == l1BlockNumber
           logs == MatchingLogs(call[c].latestConfirmedNode,
                                FromBlock(currentBlock))
       IN  call' = [call EXCEPT ![c] =
                      IF LogsRejected(logs)
                      THEN Fail(@, Error("missing logs"))
                      ELSE [@ EXCEPT !.pc = "getBlockByHash",
                                     !.parsedLog =
                                        NodeConfirmedLog(CHOOSE n \in logs : TRUE)]]
    /\ UNCHANGED <<chainVars, cacheVars, maxStatus, restVars>>

\* the block the L2 client returns for a committed block hash: the block the
\* assertion committed, or (client out of sync) one with another send root
L2Blocks(blockHash) ==
    {[sendRoot |-> root, sendCount |-> nodes[blockHash].sendCount] :
        root \in {nodes[blockHash].sendRoot, BadRoot}}

\* the send-root check left out
SendRootsDifferUnchecked(l2Block, parsedLog) == FALSE

\* l2Block['sendRoot'] !== parsedLog.sendRoot
SendRootsDiffer(l2Block, parsedLog) == l2Block.sendRoot # parsedLog.sendRoot

\* gte for gt
CoversPositionInclusive(size, position) == size >= position

\* sendRootSize.gt(this.event.position)
CoversPosition(size, position) == size > position

\* the field is assigned whatever the root covers
CachedUnchecked(write, found, cached, none) == found

\* a root that does not cover the position resets the field
CachedOrReset(write, found, cached, none) == IF write THEN found ELSE none

\* a field of the cache after updateSendRoot: assigned under the
\* sendRootSize.gt(position) check, and otherwise left as it is
Cached(write, found, cached, none) == IF write THEN found ELSE cached

\* await eth_getBlockByHash, the send-root check, the cache write, and the
\* caller's code up to its next await
GetBlockByHash(c) ==
    /\ call[c].pc = "getBlockByHash"
    /\ \E l2Block \in L2Blocks(call[c].parsedLog.blockHash) :
         LET r == [call[c] EXCEPT !.l2Block = l2Block]
             parsedLog == r.parsedLog
             size == l2Block.sendCount
             write == /\ ~SendRootsDiffer(l2Block, parsedLog)
                      /\ CoversPosition(size, event.position)
             hash1 == Cached(write, parsedLog.sendRoot, sendRootHash, NoHash)
             size1 == Cached(write, size, sendRootSize, NoSize)
             r1 == IF SendRootsDiffer(l2Block, parsedLog)
                   THEN Fail(r, Error("send roots"))
                   ELSE UpdateSendRootReturned(r, hash1, size1)
         IN  /\ sendRootHash' = hash1
             /\ sendRootSize' = size1
             /\ call' = [call EXCEPT ![c] = r1]
             /\ maxStatus' = IF /\ ~SendRootsDiffer(l2Block, parsedLog)
                                /\ r.fn = "status"
                                /\ hash1 = NoHash
                             THEN Max(maxStatus, UNCONFIRMED) ELSE maxStatus
    /\ UNCHANGED <<chainVars, restVars>>

\* ------------------------------------------------- the rest of status()
\* the branches of the conditional swapped
StatusOfSpentSwapped(isSpent) == IF isSpent THEN CONFIRMED ELSE EXECUTED

\* spent ? EXECUTED : CONFIRMED
StatusOfSpent(isSpent) == IF isSpent THEN EXECUTED ELSE CONFIRMED

\* await outbox['spent'](this.event.position), the return, and the caller's
\* code up to its next await
Spent(c) ==
    /\ call[c].pc = "spent"
    /\ LET s == StatusOfSpent(spent)
       IN  /\ call' = [call EXCEPT ![c] =
                         StatusReturned([@ EXCEPT !.spent = spent], s,
                                        sendRootHash, sendRootSize)]
           /\ maxStatus' = Max(maxStatus, s)
    /\ UNCHANGED <<chainVars, cacheVars, restVars>>

\* ------------------------------------------ the rest of getOutboxProof()
\* await nodeInterface.callStatic['constructOutboxProof'](size, leaf); in
\* execute the executeTransaction request follows
ConstructOutboxProof(c) ==
    /\ call[c].pc = "constructOutboxProof"
    /\ call' = [call EXCEPT ![c].pc =
                  IF call[c].op = "execute" THEN "executeTransaction"
                  ELSE "done"]
    /\ UNCHANGED <<chainVars, cacheVars, maxStatus, restVars>>

\* ------------------------------------------------- the rest of execute()
\* await outbox['executeTransaction'](proof, this.event.position, ...)
ExecuteTransaction(c) ==
    /\ call[c].pc = "executeTransaction"
    /\ call' = [call EXCEPT ![c].pc = "done"]
    /\ UNCHANGED <<chainVars, cacheVars, maxStatus, restVars>>

\* ------------------------------------ the rest of waitUntilReadyToExecute
\* await wait(retryDelay): the delay has elapsed; then the recursive call up
\* to its first await
Wait(c) ==
    /\ call[c].pc = "wait"
    /\ call' = [call EXCEPT ![c] = EnterStatus(@, sendRootHash)]
    /\ UNCHANGED <<chainVars, cacheVars, maxStatus, restVars>>

\* the caller gives up on a running waitUntilReadyToExecute(): the method
\* takes (retryDelay, l2Provider) and returns a plain promise, so nothing of
\* the call changes
Cancel(c) ==
    /\ call[c].op = "waitUntilReadyToExecute"
    /\ ~Idle(c)
    /\ ~call[c].cancelled
    /\ call' = [call EXCEPT ![c].cancelled = TRUE]
    /\ UNCHANGED <<chainVars, cacheVars, maxStatus, restVars>>

\* --------------------------------------------------- a chain query fails
AwaitingQuery(c) ==
    call[c].pc \in {"latestConfirmed", "getLogs", "getBlockByHash", "spent",
                    "constructOutboxProof", "executeTransaction"}

\* the awaited provider request rejects (transport failure)
QueryFails(c) ==
    /\ AwaitingQuery(c)
    /\ call' = [call EXCEPT ![c] =
                  Fail([NewCall EXCEPT !.op = call[c].op, !.fn = call[c].fn,
                                       !.retryDelay = call[c].retryDelay,
                                       !.delay = call[c].delay],
                       Error("provider request failed"))]
    /\ UNCHANGED <<chainVars, cacheVars, maxStatus, restVars>>

\* ------------------------------------------------------ the chain moves
\* the rollup confirms its next assertion; send counts never decrease
ConfirmNode ==
    /\ Len(nodes) < MaxNodes
    /\ \E count \in LastCount..MaxCount :
         nodes' = Append(nodes, [sendCount |-> count,
                                 sendRoot |-> RootAtSize(count),
                                 l1Block |-> l1BlockNumber])
    /\ UNCHANGED <<l1BlockNumber, spent, event, cacheVars, call, maxStatus,
                   restVars>>

\* the L1 head advances, by a search window or by one block more
AdvanceL1 ==
    /\ \E d \in {WindowBlocks, WindowBlocks + 1} :
         /\ l1BlockNumber + d <= MaxWindows * (WindowBlocks + 1)
         /\ l1BlockNumber' = l1BlockNumber + d
    /\ UNCHANGED <<nodes, spent, event, cacheVars, call, maxStatus,
                   restVars>>

\* the outbox executes the message against a confirmed root that covers it
OutboxExecute ==
    /\ ~spent
    /\ \E n \in 1..Len(nodes) : nodes[n].sendCount > event.position
    /\ spent' = TRUE
    /\ UNCHANGED <<nodes, l1BlockNumber, event, cacheVars, call, maxStatus,
                   restVars>>

\* --------------------------------------------- getL2ToL1MessageLogs
messageVars == <<nodes, l1BlockNumber, spent, event, sendRootHash,
                 sendRootSize, call, maxStatus, l1SignerOrProvider, emitted>>

\* the logs eventFetcher.getEvents can return: up to MaxLogs
\* L2ToL1Transaction events, each with its hash and its indexInBatch
FetchedEvents ==
    UNION {{[k \in 1..n |-> [hash |-> k, indexInBatch |-> f[k]]] :
              f \in [1..n -> 0..MaxIndex]} : n \in 0..MaxLogs}

\* the test of a number: 0 counts as left out
TruthyNumber(v) == v # Undefined /\ v # 0

\* if (indexInBatch): the argument is a BigNumber object when given, and an
\* object is truthy whatever number it holds
Truthy(v) == v # Undefined

\* events.filter(b => b.indexInBatch.eq(indexInBatch))
IndexItems(events, indexInBatch) ==
    SelectSeq(events, LAMBDA b : b.indexInBatch = indexInBatch)

\* getL2ToL1MessageLogs(..., indexInBatch?) up to its await
GetL2ToL1MessageLogs ==
    /\ logsCall.pc \in {"idle", "done", "failed"}
    /\ \E indexInBatch \in {Undefined} \cup 0..MaxIndex :
         logsCall' = [NewLogsCall EXCEPT !.pc = "getEvents",
                                         !.indexInBatch = indexInBatch]
    /\ UNCHANGED <<messageVars, registryVars, retryableVars, wrapperVars>>

\* await eventFetcher.getEvents(...), then the filter by indexInBatch
GetEvents ==
    /\ logsCall.pc = "getEvents"
    /\ \E events \in FetchedEvents :
         LET r == [logsCall EXCEPT !.events = events]
             indexItems == IndexItems(events, r.indexInBatch)
         IN  logsCall' =
               IF Truthy(r.indexInBatch)
               THEN IF Len(indexItems) = 1
                    THEN [r EXCEPT !.pc = "done", !.result = indexItems]
                    ELSE IF Len(indexItems) > 1
                    THEN [r EXCEPT
                            !.pc = "failed",
                            !.err = ArbTsError(
                              "More than one indexed item found in batch.")]
                    ELSE [r EXCEPT !.pc = "done", !.result = <<>>]
               ELSE [r EXCEPT !.pc = "done", !.result = events]
    /\ UNCHANGED <<messageVars, registryVars, retryableVars, wrapperVars>>

NextLogs ==
    \/ GetL2ToL1MessageLogs
    \/ GetEvents

SpecLogs == Init /\ [][NextLogs]_vars

\* ------------------------------------ addCustomNetwork, addCustomChain
\* the chain ids registration is tried with: a built-in L1, a built-in L2
\* and the two of addDefaultLocalNetwork, in no table as loaded
ChainIDs == {1, 42161, 1337, 412346}

\* the descriptors a caller passes as customL1Network / customParentChain
\* with the given child listed as its partner or not, and as
\* customL2Network / customChain
CustomParents(childID) ==
    {[L1Network(id, partners) EXCEPT !.isCustom = isCustom] :
        id \in ChainIDs, isCustom \in BOOLEAN,
        partners \in {<<>>, <<childID>>}}

CustomChildren ==
    {[L2Network(id, partner) EXCEPT !.isCustom = isCustom] :
        id \in ChainIDs, isCustom \in BOOLEAN, partner \in ChainIDs}

\* the tables with the failure thrown, if any
Tables ==
    [heap |-> heap, l1Networks |-> l1Networks, l2Networks |-> l2Networks,
     parentChains |-> parentChains, chains |-> chains, err |-> NoRegErr]

Throw(st, e) == [st EXCEPT !.err = e]

\* the check of the id left out
AlreadyIncludedUnchecked(table, id) == FALSE

\* if (table[network.chainID])
AlreadyIncluded(table, id) == id \in DOMAIN table

\* network.isCustom
IsCustom(network) == network.isCustom

\* list.includes(id)
Includes(list, id) == \E k \in 1..Len(list) : list[k] = id

\* the list is assigned, not pushed onto
PushPartnerReplacing(st, ref, id) ==
    [st EXCEPT !.heap[ref].partnerChainIDs = <<id>>]

\* if (!object.partnerChainIDs.includes(id)) object.partnerChainIDs.push(id)
PushPartner(st, ref, id) ==
    IF Includes(st.heap[ref].partnerChainIDs, id)
    THEN st
    ELSE [st EXCEPT !.heap[ref].partnerChainIDs = Append(@, id)]

\* addCustomNetwork: if (customL1Network) { ... }
AddL1Network(st, customL1Network, ref) ==
    IF customL1Network = NoNetwork
    THEN st
    ELSE IF AlreadyIncluded(st.l1Networks, customL1Network.chainID)
    THEN Throw(st, ArbSdkError("Network ${chainID} already included",
                               customL1Network.chainID))
    ELSE IF ~IsCustom(customL1Network)
    THEN Throw(st, ArbSdkError(
            "Custom network ${chainID} must have isCustom flag set to true",
            customL1Network.chainID))
    ELSE [st EXCEPT !.heap = Put(@, ref, customL1Network),
                    !.l1Networks = Put(@, customL1Network.chainID, ref)]

\* addCustomNetwork: the checks of customL2Network and its store
AddL2Network(st, customL2Network, ref) ==
    IF AlreadyIncluded(st.l2Networks, customL2Network.chainID)
    THEN Throw(st, ArbSdkError("Network ${chainID} already included",
                               customL2Network.chainID))
    ELSE IF ~IsCustom(customL2Network)
    THEN Throw(st, ArbSdkError(
            "Custom network ${chainID} must have isCustom flag set to true",
            customL2Network.chainID))
    ELSE [st EXCEPT !.heap = Put(@, ref, customL2Network),
                    !.l2Networks = Put(@, customL2Network.chainID, ref)]

\* addCustomNetwork: the partner of customL2Network in l1Networks
LinkL1Partner(st, customL2Network) ==
    IF customL2Network.partnerChainID \notin DOMAIN st.l1Networks
    THEN Throw(st, ArbSdkError(
            "Network ${chainID}'s partner network, ${partnerChainID}, not recognized",
            customL2Network.chainID))
    ELSE PushPartner(st, st.l1Networks[customL2Network.partnerChainID],
                     customL2Network.chainID)

\* the statements of a function in order, a throw ending it
Then(st, next) == IF st.err # NoRegErr THEN st ELSE next

addCustomNetwork(customL1Network, customL2Network, n) ==
    LET s1 == AddL1Network(Tables, customL1Network, ArgRef(n, "parent"))
        s2 == Then(s1, AddL2Network(s1, customL2Network, ArgRef(n, "child")))
    IN  Then(s2, LinkL1Partner(s2, customL2Network))

\* { ...object }: a copy, and of undefined the empty object
Spread(object) == IF object = NoNetwork THEN EmptyObject ELSE object

\* table[id], undefined when there is no entry
Entry(st, table, id) ==
    IF id \in DOMAIN table THEN st.heap[table[id]] ELSE NoNetwork

\* addCustomChain: if (customParentChain) { ... }
CheckParentChain(st, customParentChain) ==
    IF customParentChain = NoNetwork
    THEN st
    ELSE IF AlreadyIncluded(st.parentChains, customParentChain.chainID)
    THEN Throw(st, ArbSdkError("Parent chain ${chainID} already included.",
                               customParentChain.chainID))
    ELSE IF ~IsCustom(customParentChain)
    THEN Throw(st, ArbSdkError(
            "Custom parent chain ${chainID} must have isCustom flag set to true.",
            customParentChain.chainID))
    ELSE st

\* addCustomChain: the checks of customChain
CheckChain(st, customChain) ==
    IF AlreadyIncluded(st.chains, customChain.chainID)
    THEN Throw(st, ArbSdkError("Chain ${chainID} already included.",
                               customChain.chainID))
    ELSE IF ~IsCustom(customChain)
    THEN Throw(st, ArbSdkError(
            "Custom chain ${chainID} must have isCustom flag set to true.",
            customChain.chainID))
    ELSE st

\* addCustomChain: let parentPartnerChain = { ...parentChains[partner] },
\* replaced by customParentChain when falsy and customParentChain is the
\* partner
ParentPartnerChain(st, customParentChain, customChain) ==
    LET spread == Spread(Entry(st, st.parentChains,
                               customChain.partnerChainID))
    IN  IF /\ spread = NoNetwork
           /\ customParentChain # NoNetwork
           /\ customParentChain.chainID = customChain.partnerChainID
        THEN customParentChain
        ELSE spread

\* addCustomChain: if (!parentPartnerChain) throw
CheckPartner(st, customParentChain, customChain) ==
    IF ParentPartnerChain(st, customParentChain, customChain) = NoNetwork
    THEN Throw(st, ArbSdkError(
            "Chain ${chainID}'s partner parent chain, ${parentChains.partnerChainID}, not recognized.",
            customChain.chainID))
    ELSE st

\* addCustomChain: the stores into parentChains and chains
StoreChains(st, customParentChain, parentRef, customChain, ref) ==
    LET s1 == IF customParentChain = NoNetwork
              THEN st
              ELSE [st EXCEPT
                      !.heap = Put(@, parentRef, customParentChain),
                      !.parentChains =
                          Put(@, customParentChain.chainID, parentRef)]
    IN  [s1 EXCEPT !.heap = Put(@, ref, customChain),
                   !.chains = Put(@, customChain.chainID, ref)]

\* addCustomChain: the parent entry built from l2Networks when there is none
EnsureParent(st, customChain, ref) ==
    IF customChain.partnerChainID \in DOMAIN st.parentChains
    THEN st
    ELSE [st EXCEPT
            !.heap = Put(@, ref,
                         [Spread(Entry(st, st.l2Networks,
                                       customChain.partnerChainID))
                            EXCEPT !.partnerChainIDs = <<>>]),
            !.parentChains = Put(@, customChain.partnerChainID, ref)]

addCustomChain(customParentChain, customChain, n) ==
    LET s1 == CheckParentChain(Tables, customParentChain)
        s2 == Then(s1, CheckChain(s1, customChain))
        s3 == Then(s2, CheckPartner(s2, customParentChain, customChain))
        s4 == Then(s3, StoreChains(s3, customParentChain, ArgRef(n, "parent"),
                                   customChain, ArgRef(n, "child")))
        s5 == Then(s4, EnsureParent(s4, customChain, ArgRef(n, "copy")))
    IN  Then(s5, PushPartner(s5, s5.parentChains[customChain.partnerChainID],
                             customChain.chainID))

\* the tables after a registration call, and the call as made
Registered(fn, parent, child, st) ==
    /\ heap' = st.heap
    /\ l1Networks' = st.l1Networks
    /\ l2Networks' = st.l2Networks
    /\ parentChains' = st.parentChains
    /\ chains' = st.chains
    /\ regCall' = [n |-> regCall.n + 1, fn |-> fn, parent |-> parent,
                   child |-> child, err |-> st.err]
    /\ UNCHANGED <<messageVars, logsCall, lookup, retryableVars, wrapperVars>>

AddCustomNetwork ==
    /\ regCall.n < MaxRegistrations
    /\ \E customL2Network \in CustomChildren :
         \E customL1Network \in
               {NoNetwork} \cup CustomParents(customL2Network.chainID) :
            Registered("addCustomNetwork", customL1Network, customL2Network,
                       addCustomNetwork(customL1Network, customL2Network,
                                        regCall.n + 1))

AddCustomChain ==
    /\ regCall.n < MaxRegistrations
    /\ \E customChain \in CustomChildren :
         \E customParentChain \in
               {NoNetwork} \cup CustomParents(customChain.chainID) :
            Registered("addCustomChain", customParentChain, customChain,
                       addCustomChain(customParentChain, customChain,
                                      regCall.n + 1))

NextRegistry ==
    \/ AddCustomNetwork
    \/ AddCustomChain

\* the tables are module state: no message instance has a part in them
InitRegistry == Init /\ event.position = 0

SpecRegistry == InitRegistry /\ [][NextRegistry]_vars

\* b || a
OrSwapped(a, b) == IF b # NoNetwork THEN b ELSE a

\* a || b on two table entries
Or(a, b) == IF a # NoNetwork THEN a ELSE b

\* what an async lookup settles with: the descriptor, or the rejection
Resolved(network) == [network |-> network, err |-> NoRegErr]
RejectedWith(e) == [network |-> NoNetwork, err |-> e]

\* getNetwork with a chain id for its first argument
getNetwork(chainID, layer) ==
    LET network == IF layer = 1
                   THEN Entry(Tables, l1Networks, chainID)
                   ELSE Or(Entry(Tables, l2Networks, chainID),
                           Entry(Tables, chains, chainID))
    IN  IF network # NoNetwork
        THEN Resolved(network)
        ELSE RejectedWith(ArbSdkError("Unrecognized network ${chainID}.",
                                      chainID))

getL1Network(chainID) == getNetwork(chainID, 1)

\* getParentChainOrChain with a chain id for its first argument
getParentChainOrChain(chainID, type) ==
    LET _chains == IF type = "ParentChain" THEN parentChains ELSE chains
        chain == Entry(Tables, _chains, chainID)
    IN  IF chain = NoNetwork
        THEN RejectedWith(ArbSdkError(
                IF type = "ParentChain"
                THEN "Unrecognized ParentChain ${chainID}."
                ELSE "Unrecognized Chain ${chainID}.", chainID))
        ELSE Resolved(chain)

getParentChain(chainID) == getParentChainOrChain(chainID, "ParentChain")

getChain(chainID) == getParentChainOrChain(chainID, "Chain")

\* the catch is entered whenever the promise rejects, as if it were awaited
CaughtRejection(promise) == promise.err # NoRegErr

\* try { l2Network = getNetwork(...) } catch: getNetwork is async, so the
\* call returns a promise and throws nothing into the try block, whatever
\* the promise settles with
Caught(promise) == FALSE

getL2Network(chainID) ==
    LET l2Network == getNetwork(chainID, 2)
    IN  IF Caught(l2Network) THEN getChain(chainID) ELSE l2Network

\* what provider.getNetwork() settles with: a chain id or a failure
ProviderAnswers ==
    {[ok |-> TRUE, chainId |-> id] : id \in ChainIDs}
        \cup {[ok |-> FALSE, chainId |-> Undefined]}

\* the rejection of provider.getNetwork()
ProviderError ==
    [kind |-> "Error", msg |-> "could not detect network",
     chainID |-> Undefined]

\* the chainID closure of getNetwork and getParentChainOrChain, given a
\* provider: the lookup goes on with the id reported, or rejects with the
\* failure of the provider
OfProvider(answer, settled) ==
    IF answer.ok THEN settled ELSE RejectedWith(ProviderError)

\* getL2Network given a provider, which the functions it calls ask for its
\* chain id once each
getL2NetworkOfProvider(answers) ==
    LET l2Network == OfProvider(answers[1], getNetwork(answers[1].chainId, 2))
    IN  IF Caught(l2Network)
        THEN OfProvider(answers[2], getChain(answers[2].chainId))
        ELSE l2Network

\* a lookup as made and what it settled with
LookedUp(fn, chainID, settled) ==
    /\ lookup' = [fn |-> fn, chainID |-> chainID,
                  network |-> settled.network, err |-> settled.err,
                  provider |-> <<>>]
    /\ UNCHANGED <<messageVars, logsCall, heap, l1Networks, l2Networks,
                   parentChains, chains, regCall, retryableVars, wrapperVars>>

GetL1Network ==
    \E chainID \in ChainIDs :
        LookedUp("getL1Network", chainID, getL1Network(chainID))

GetL2Network ==
    \E chainID \in ChainIDs :
        LookedUp("getL2Network", chainID, getL2Network(chainID))

GetParentChain ==
    \E chainID \in ChainIDs :
        LookedUp("getParentChain", chainID, getParentChain(chainID))

GetChain ==
    \E chainID \in ChainIDs :
        LookedUp("getChain", chainID, getChain(chainID))

\* lookups in the tables as loaded and as extended by registrations
NextResolve ==
    \/ (regCall.n < MaxLookupRegistrations /\ AddCustomNetwork)
    \/ (regCall.n < MaxLookupRegistrations /\ AddCustomChain)
    \/ GetL1Network
    \/ GetL2Network
    \/ GetParentChain
    \/ GetChain

SpecResolve == InitRegistry /\ [][NextResolve]_vars

\* getL2Network(provider)
GetL2NetworkOfProvider ==
    /\ \E first \in ProviderAnswers, second \in ProviderAnswers :
         LET settled == getL2NetworkOfProvider(<<first, second>>)
         IN  lookup' = [fn |-> "getL2Network", chainID |-> first.chainId,
                        network |-> settled.network, err |-> settled.err,
                        provider |-> <<first, second>>]
    /\ UNCHANGED <<messageVars, logsCall, heap, l1Networks, l2Networks,
                   parentChains, chains, regCall, retryableVars, wrapperVars>>

\* lookups by provider in the tables as loaded and as extended
NextProvider ==
    \/ (regCall.n < MaxLookupRegistrations /\ AddCustomNetwork)
    \/ (regCall.n < MaxLookupRegistrations /\ AddCustomChain)
    \/ GetL2NetworkOfProvider

SpecProvider == InitRegistry /\ [][NextProvider]_vars

\* ------------------------------- revert data of a retryable ticket
Addresses == {"0xa11ce", "0xb0b"}

\* calldata: up to MaxData bytes
Datas == UNION {[1..n -> {0, 255}] : n \in 0..MaxData}

\* RetryableDataTools.ErrorTriggeringParams: the gas parameters on which the
\* inbox reverts with the ticket it was given
ErrorTriggeringParams == [gasLimit |-> 1, maxFeePerGas |-> 1]

RetryableDataSignature ==
    "RetryableData(address,address,uint256,uint256,uint256,address,address,uint256,uint256,bytes)"

\* the revert data of error RetryableData: the selector, the nine static
\* fields, and data as offset, length and bytes
encodeRetryableData(t) ==
    <<RetryableDataSignature, t.from, t.to, t.l2CallValue, t.deposit,
      t.maxSubmissionCost, t.excessFeeRefundAddress, t.callValueRefundAddress,
      t.gasLimit, t.maxFeePerGas, 10, Len(t.data)>> \o t.data

\* the revert reports the call value of the ticket as its deposit
createRetryableTicketCallValue(func, sender, t, value) ==
    LET retryableData == [t EXCEPT !.from = sender, !.deposit = t.l2CallValue]
        errorData == encodeRetryableData(retryableData)
    IN  IF /\ t.gasLimit # ErrorTriggeringParams.gasLimit
           /\ t.maxFeePerGas # ErrorTriggeringParams.maxFeePerGas
        THEN [submitted |-> retryableData, error |-> Null]
        ELSE [submitted |-> retryableData,
              error |-> [message |-> "execution reverted",
                         data |-> IF func = "callStatic"
                                  THEN errorData ELSE Null,
                         nested |-> IF func = "estimateGas"
                                    THEN errorData ELSE Null]]

\* inbox.createRetryableTicket(...,{ value }) from sender, as a gas estimate
\* or a static call: with error-triggering gas parameters it reverts with
\* RetryableData, which the provider hands over at the top of the error it
\* throws (callStatic) or inside the error of the node (estimateGas);
\* otherwise nothing is thrown
createRetryableTicket(func, sender, t, value) ==
    LET retryableData == [t EXCEPT !.from = sender, !.deposit = value]
        errorData == encodeRetryableData(retryableData)
    IN  IF /\ t.gasLimit # ErrorTriggeringParams.gasLimit
           /\ t.maxFeePerGas # ErrorTriggeringParams.maxFeePerGas
        THEN [submitted |-> retryableData, error |-> Null]
        ELSE [submitted |-> retryableData,
              error |-> [message |-> "execution reverted",
                         data |-> IF func = "callStatic"
                                  THEN errorData ELSE Null,
                         nested |-> IF func = "estimateGas"
                                    THEN errorData ELSE Null]]

\* errors that are no RetryableData revert: one without revert data and
\* one with the revert data of Error(string)
UnrelatedErrors ==
    {[message |-> "insufficient funds", data |-> Null, nested |-> Null],
     [message |-> "execution reverted",
      data |-> <<"Error(string)", 1, 255>>, nested |-> Null],
     [message |-> "execution reverted", data |-> Null,
      nested |-> <<"Error(string)", 1, 255>>]}

\* the two refund addresses are read from each other's word
tryParseErrorRefundsSwapped(error) ==
    LET errorData == IF error.data # Null THEN error.data ELSE error.nested
    IN  IF errorData = Null \/ errorData[1] # RetryableDataSignature
        THEN [parsed |-> Null, threw |-> FALSE]
        ELSE [parsed |->
                [from |-> errorData[2], to |-> errorData[3],
                 l2CallValue |-> errorData[4], deposit |-> errorData[5],
                 maxSubmissionCost |-> errorData[6],
                 excessFeeRefundAddress |-> errorData[8],
                 callValueRefundAddress |-> errorData[7],
                 gasLimit |-> errorData[9], maxFeePerGas |-> errorData[10],
                 data |-> SubSeq(errorData, errorData[11] + 3,
                                 errorData[11] + 2
                                     + errorData[errorData[11] + 2])],
              threw |-> FALSE]

\* revert data of another error is handed to the decoder, which throws
tryParseErrorAnyData(error) ==
    LET errorData == IF error.data # Null THEN error.data ELSE error.nested
    IN  IF errorData = Null
        THEN [parsed |-> Null, threw |-> FALSE]
        ELSE IF errorData[1] # RetryableDataSignature
        THEN [parsed |-> Null, threw |-> TRUE]
        ELSE [parsed |->
                [from |-> errorData[2], to |-> errorData[3],
                 l2CallValue |-> errorData[4], deposit |-> errorData[5],
                 maxSubmissionCost |-> errorData[6],
                 excessFeeRefundAddress |-> errorData[7],
                 callValueRefundAddress |-> errorData[8],
                 gasLimit |-> errorData[9], maxFeePerGas |-> errorData[10],
                 data |-> SubSeq(errorData, errorData[11] + 3,
                                 errorData[11] + 2
                                     + errorData[errorData[11] + 2])],
              threw |-> FALSE]

\* RetryableDataTools.tryParseError: null when the error carries no revert
\* data or revert data of another signature, else the fields decoded from
\* the words of the data, the bytes found by their offset and length
tryParseError(error) ==
    LET errorData == IF error.data # Null THEN error.data ELSE error.nested
    IN  IF errorData = Null \/ errorData[1] # RetryableDataSignature
        THEN [parsed |-> Null, threw |-> FALSE]
        ELSE [parsed |->
                [from |-> errorData[2], to |-> errorData[3],
                 l2CallValue |-> errorData[4], deposit |-> errorData[5],
                 maxSubmissionCost |-> errorData[6],
                 excessFeeRefundAddress |-> errorData[7],
                 callValueRefundAddress |-> errorData[8],
                 gasLimit |-> errorData[9], maxFeePerGas |-> errorData[10],
                 data |-> SubSeq(errorData, errorData[11] + 3,
                                 errorData[11] + 2
                                     + errorData[errorData[11] + 2])],
              threw |-> FALSE]

\* what the retryable actions leave alone
notRetryableVars == <<messageVars, logsCall, registryVars, wrapperVars>>

\* inbox[func].createRetryableTicket with the parameters of
\* createRevertParams
CreateRetryableTicket ==
    /\ revert.func = "" /\ request = Null
    /\ \E func \in {"estimateGas", "callStatic"}, sender \in Addresses,
          to \in Addresses, excessFeeRefundAddress \in Addresses,
          callValueRefundAddress \in Addresses, l2CallValue \in {0, 137},
          maxSubmissionCost \in {0, 1618}, data \in Datas :
         LET t == [from |-> Null, to |-> to, l2CallValue |-> l2CallValue,
                   deposit |-> Null, maxSubmissionCost |-> maxSubmissionCost,
                   excessFeeRefundAddress |-> excessFeeRefundAddress,
                   callValueRefundAddress |-> callValueRefundAddress,
                   gasLimit |-> ErrorTriggeringParams.gasLimit,
                   maxFeePerGas |-> ErrorTriggeringParams.maxFeePerGas,
                   data |-> data]
             thrown == createRetryableTicket(func, sender, t,
                                             l2CallValue + maxSubmissionCost)
         IN  revert' = [func |-> func, fees |-> fees,
                        submitted |-> thrown.submitted,
                        error |-> thrown.error, parsed |-> Null,
                        threw |-> FALSE, tried |-> FALSE]
    /\ UNCHANGED <<notRetryableVars, fees, request, ticket>>

\* a call fails with an error that is no RetryableData revert
UnrelatedError ==
    /\ revert.func = "" /\ request = Null
    /\ \E error \in UnrelatedErrors :
         revert' = [func |-> "send", fees |-> fees, submitted |-> Null,
                    error |-> error, parsed |-> Null, threw |-> FALSE,
                    tried |-> FALSE]
    /\ UNCHANGED <<notRetryableVars, fees, request, ticket>>

\* the catch block: RetryableDataTools.tryParseError(err)
TryParseError ==
    /\ revert.error # Null
    /\ ~revert.tried
    /\ revert' = [revert EXCEPT
                    !.parsed = tryParseError(revert.error).parsed,
                    !.threw = tryParseError(revert.error).threw,
                    !.tried = TRUE]
    /\ UNCHANGED <<notRetryableVars, fees, request, ticket>>

\* ------------------------------------- the fee estimate of a deposit
\* GasOverrides: base, percentIncrease and min of each fee parameter, base
\* and min left out or given
GasOverrides ==
    [gasLimit : [base : {Undefined, 1, 150}, percentIncrease : {0, 1, 50},
                 min : {Undefined, 0, 200}],
     maxFeePerGas : [base : {Undefined, 1}, percentIncrease : {0},
                     min : {Undefined}],
     maxSubmissionCost : [base : {Undefined, 1618}, percentIncrease : {0, 300},
                          min : {Undefined}]]

\* the increase alone
percentIncreaseWithoutBase(num, increase) == (num * increase) \div 100

\* num.add(num.mul(increase).div(100)) on non-negative integers
percentIncrease(num, increase) == num + (num * increase) \div 100

\* a fee parameter: the base of the override, or else what the network
\* reports, increased by the percentage and floored at min
estimate(override, reported) ==
    LET base == IF override.base # Undefined THEN override.base ELSE reported
        calculated == percentIncrease(base, override.percentIncrease)
    IN  IF override.min # Undefined /\ calculated < override.min
        THEN override.min ELSE calculated

\* erc20Bridger.getDepositRequest: the retryable the deposit will create
\* and the fee parameters estimated for it at the fee levels of the moment
getDepositRequest(params, overrides, now) ==
    LET gasLimit == estimate(overrides.gasLimit, now.gasEstimate)
        maxFeePerGas == estimate(overrides.maxFeePerGas, now.gasPrice)
        maxSubmissionCost ==
            estimate(overrides.maxSubmissionCost, now.submissionFee)
    IN  [params |-> params, overrides |-> overrides, fees |-> now,
         retryableData |->
            [sender |-> params.sender, destination |-> params.destination,
             l2CallValue |-> 0, callData |-> params.callData,
             excessFeeRefundAddress |-> params.excessFeeRefundAddress,
             callValueRefundAddress |-> params.callValueRefundAddress],
         l2GasLimit |-> gasLimit, l2MaxFeePerGas |-> maxFeePerGas,
         l2SubmissionFee |-> maxSubmissionCost,
         l2GasCostsMaxTotal |-> gasLimit * maxFeePerGas + maxSubmissionCost]

GetDepositRequest ==
    /\ revert.func = "" /\ request = Null
    /\ \E overrides \in GasOverrides, callData \in Datas :
         request' = getDepositRequest(
                       [sender |-> "0x9a7e", destination |-> "0x9a7e2",
                        callData |-> callData,
                        excessFeeRefundAddress |-> "0xb0b",
                        callValueRefundAddress |-> "0xa11ce"],
                       overrides, fees)
    /\ UNCHANGED <<notRetryableVars, fees, revert, ticket>>

\* erc20Bridger.deposit with the parameters and overrides of the request:
\* it estimates again and sends the retryable with the total as value
Deposit ==
    /\ revert.func = "" /\ request # Null
    /\ LET r == getDepositRequest(request.params, request.overrides, fees)
           t == [from |-> Null, to |-> r.retryableData.destination,
                 l2CallValue |-> r.retryableData.l2CallValue,
                 deposit |-> Null, maxSubmissionCost |-> r.l2SubmissionFee,
                 excessFeeRefundAddress |->
                    r.retryableData.excessFeeRefundAddress,
                 callValueRefundAddress |->
                    r.retryableData.callValueRefundAddress,
                 gasLimit |-> r.l2GasLimit, maxFeePerGas |-> r.l2MaxFeePerGas,
                 data |-> r.retryableData.callData]
           thrown == createRetryableTicket("estimateGas",
                                           r.retryableData.sender, t,
                                           r.l2GasCostsMaxTotal)
       IN  revert' = [func |-> "deposit", fees |-> fees,
                      submitted |-> thrown.submitted, error |-> thrown.error,
                      parsed |-> Null, threw |-> FALSE, tried |-> FALSE]
    /\ UNCHANGED <<notRetryableVars, fees, request, ticket>>

\* the networks report other fee levels before a call reads them
FeesChange ==
    /\ revert.func = ""
    /\ \E now \in NetworkFees \ {fees} : fees' = now
    /\ UNCHANGED <<notRetryableVars, request, revert, ticket>>

\* one scenario a run: a revert of createRetryableTicket or an unrelated
\* error parsed, or a deposit request and the deposit
NextRetryable ==
    \/ CreateRetryableTicket
    \/ UnrelatedError
    \/ TryParseError
    \/ GetDepositRequest
    \/ Deposit
    \/ FeesChange

SpecRetryable == InitRegistry /\ [][NextRetryable]_vars

\* ------------------------------------------ the inbound ticket tracker
\* lifetime of a retryable ticket on the public deployments
retryableLifetimeSeconds == 604800

MaxCalls == 3        \* calls of status() and redeem() in a run
MaxSeconds == 2      \* single seconds the L2 clock passes within a lifetime
MaxLifetimes == 2    \* whole lifetimes the L2 clock passes

\* getTimeout(): creation time + the lifetime
getTimeout(t) == t.createdAt + retryableLifetimeSeconds

\* the chain keeps a created ticket whatever the time
RetryableExistsForever(t) == t.state = "created"

\* the chain still holds the ticket: created, not redeemed, and the
\* deadline has not passed
RetryableExists(t) == t.state = "created" /\ t.now <= getTimeout(t)

\* status(): from the receipt of the parent-chain transaction and the
\* state of the chain
ticketStatus(t) ==
    CASE t.state = "queued" -> "NOT_YET_CREATED"
      [] t.state = "failed" -> "CREATION_FAILED"
      [] t.state = "redeemed" -> "REDEEMED"
      [] OTHER -> IF RetryableExists(t)
                  THEN "FUNDS_DEPOSITED_ON_CHAIN" ELSE "EXPIRED"

notTicketVars == <<notRetryableVars, fees, request, revert>>

\* the parent-chain transaction is mined: (a) it fails outright, (b) the
\* ticket is created and the auto-redeem succeeds, (c) the ticket is
\* created and the auto-redeem fails
TicketCreation ==
    /\ ticket.state = "queued"
    /\ \E outcome \in {"failed", "redeemed", "created"} :
         ticket' = [ticket EXCEPT !.state = outcome, !.createdAt = ticket.now]
    /\ UNCHANGED notTicketVars

\* the clock of the chain passes a second or a whole lifetime
TimePasses ==
    /\ \E seconds \in {1, retryableLifetimeSeconds} :
         /\ seconds = 1 => ticket.now % retryableLifetimeSeconds < MaxSeconds
         /\ seconds = retryableLifetimeSeconds =>
               ticket.now \div retryableLifetimeSeconds < MaxLifetimes
         /\ ticket' = [ticket EXCEPT !.now = ticket.now + seconds]
    /\ UNCHANGED notTicketVars

\* the chain redeems whatever it is asked to
redeemOnChainWhenever(t) == [t EXCEPT !.state = "redeemed"]

\* the chain executes a redeem of the ticket, sent by anyone: it reverts
\* unless the chain still holds the ticket
redeemOnChain(t) ==
    IF RetryableExists(t) THEN [t EXCEPT !.state = "redeemed"] ELSE t

RedeemByAnother ==
    /\ RetryableExists(ticket)
    /\ ticket' = redeemOnChain(ticket)
    /\ UNCHANGED notTicketVars

TicketStatus ==
    /\ ticket.call.n < MaxCalls
    /\ ~ticket.call.submitted
    /\ ticket' = [ticket EXCEPT !.call =
                     [n |-> ticket.call.n + 1, op |-> "status",
                      result |-> ticketStatus(ticket), error |-> "",
                      submitted |-> FALSE]]
    /\ UNCHANGED notTicketVars

\* redeem(): reads the status, and sends the redeem transaction only when
\* the ticket exists and is unredeemed
Redeem ==
    /\ ticket.call.n < MaxCalls
    /\ ~ticket.call.submitted
    /\ LET status == ticketStatus(ticket)
       IN  ticket' = [ticket EXCEPT !.call =
                        [n |-> ticket.call.n + 1, op |-> "redeem",
                         result |-> status,
                         error |-> IF status = "FUNDS_DEPOSITED_ON_CHAIN"
                                   THEN ""
                                   ELSE "Cannot redeem as retryable does not exist",
                         submitted |-> status = "FUNDS_DEPOSITED_ON_CHAIN"]]
    /\ UNCHANGED notTicketVars

\* the redeem transaction sent by redeem() is executed
RedeemExecuted ==
    /\ ticket.call.submitted
    /\ LET executed == redeemOnChain(ticket)
       IN  ticket' = [executed EXCEPT !.call =
                        [ticket.call EXCEPT
                           !.submitted = FALSE,
                           !.result = IF executed # ticket
                                      THEN "REDEEMED" ELSE "reverted",
                           !.error = IF executed # ticket
                                     THEN "" ELSE "transaction reverted"]]
    /\ UNCHANGED notTicketVars

NextTicket ==
    \/ TicketCreation
    \/ TimePasses
    \/ RedeemByAnother
    \/ TicketStatus
    \/ Redeem
    \/ RedeemExecuted

SpecTicket == InitRegistry /\ [][NextTicket]_vars

\* --------------------------------------------------------- EthBridger
\* typeof this.nativeToken === 'undefined', of the bridger of l2Network
isNativeTokenEthAlways(l2Network) == TRUE

isNativeTokenEth(l2Network) == l2Network.nativeToken = "undefined"

\* interface.encodeFunctionData(functionFragment, values)
encodeFunctionData(functionFragment, values) == <<functionFragment>> \o values

\* what a method of the bridger returns, or the Error it throws
Returns(txRequest) == [err |-> "", sent |-> <<>>, txRequest |-> txRequest]
Throws(message) == [err |-> message, sent |-> <<>>, txRequest |-> Null]

getApproveFeeTokenTxRequest(l2Network, params) ==
    IF isNativeTokenEth(l2Network)
    THEN Throws("chain uses ETH as its native/fee token")
    ELSE LET amount ==
                 IF params = Null \/ params.amount = "undefined"
                 THEN "115792089237316195423570985008687907853269984665640564039457584007913129639935"
                 ELSE params.amount
             data == encodeFunctionData("approve",
                                        <<l2Network.ethBridge.inbox, amount>>)
         IN  Returns([to |-> l2Network.nativeToken, data |-> data,
                      value |-> "0"])

\* { ...a, ...b } of a transaction request and the overrides of a call
WithOverrides(txRequest, overrides) ==
    IF overrides = <<>> THEN txRequest ELSE overrides @@ txRequest

\* the check of the native token left to getApproveFeeTokenTxRequest
approveFeeTokenUnguarded(l2Network, params) ==
    LET approveFeeTokenRequest ==
            IF params.txRequest = Null
            THEN getApproveFeeTokenTxRequest(l2Network, params)
            ELSE Returns(params.txRequest)
    IN  IF approveFeeTokenRequest.err # ""
        THEN approveFeeTokenRequest
        ELSE [approveFeeTokenRequest EXCEPT
                !.sent = <<WithOverrides(approveFeeTokenRequest.txRequest,
                                         params.overrides)>>]

\* approveFeeToken: the request built here or the one passed, sent through
\* params.l1Signer with the overrides
approveFeeToken(l2Network, params) ==
    IF isNativeTokenEth(l2Network)
    THEN Throws("chain uses ETH as its native/fee token")
    ELSE LET approveFeeTokenRequest ==
                 IF params.txRequest = Null
                 THEN getApproveFeeTokenTxRequest(l2Network, params)
                 ELSE Returns(params.txRequest)
         IN  [approveFeeTokenRequest EXCEPT
                !.sent = <<WithOverrides(approveFeeTokenRequest.txRequest,
                                         params.overrides)>>]

getDepositRequestData(l2Network, params) ==
    IF ~isNativeTokenEth(l2Network)
    THEN encodeFunctionData("depositERC20(uint256)", <<params.amount>>)
    ELSE encodeFunctionData("depositEth()", <<>>)

\* EthBridger.getDepositRequest
getEthDepositRequest(l2Network, params) ==
    Returns([from |-> params.from,
             to |-> l2Network.ethBridge.inbox,
             data |-> getDepositRequestData(l2Network, params),
             value |-> IF isNativeTokenEth(l2Network)
                       THEN params.amount ELSE "0"])

\* a call on new EthBridger(l2Network), as made and as it ended
BridgerCalled(fn, l2Network, params, done) ==
    /\ bridgerCall' = [fn |-> fn, err |-> done.err, l2Network |-> l2Network,
                       params |-> params, sent |-> done.sent,
                       txRequest |-> done.txRequest]
    /\ UNCHANGED <<messageVars, logsCall, registryVars, retryableVars,
                   rpcCall>>

\* the networks a bridger is built for: ETH or a token of the parent chain
\* as native token
BridgerNetworks ==
    [nativeToken : {"undefined", "0xfee"},
     ethBridge : [inbox : {"0x1nb0x", "0x1nb0x2"}]]

Amounts == {"0", "1", "2", "1000000000000000000"}

GetApproveFeeTokenTxRequest ==
    \E l2Network \in BridgerNetworks,
       params \in {Null} \cup [amount : Amounts \cup {"undefined"}] :
        BridgerCalled("getApproveFeeTokenTxRequest", l2Network, params,
                      getApproveFeeTokenTxRequest(l2Network, params))

ApproveFeeToken ==
    \E l2Network \in BridgerNetworks,
       amount \in Amounts \cup {"undefined"},
       overrides \in {<<>>, [gasLimit |-> "100000"]},
       withTxRequest \in BOOLEAN :
        /\ withTxRequest => amount = "undefined"
        /\ LET params ==
                   [txRequest |->
                        IF withTxRequest
                        THEN [to |-> "0xfee",
                              data |-> <<"approve",
                                         l2Network.ethBridge.inbox, "1">>,
                              value |-> "0"]
                        ELSE Null,
                    overrides |-> overrides,
                    amount |-> amount]
           IN  BridgerCalled("approveFeeToken", l2Network, params,
                             approveFeeToken(l2Network, params))

GetEthDepositRequest ==
    \E l2Network \in BridgerNetworks,
       params \in [from : Addresses, amount : Amounts] :
        BridgerCalled("getDepositRequest", l2Network, params,
                      getEthDepositRequest(l2Network, params))

NextEthBridger ==
    \/ GetApproveFeeTokenTxRequest
    \/ ApproveFeeToken
    \/ GetEthDepositRequest

SpecEthBridger == InitRegistry /\ [][NextEthBridger]_vars

\* ---------------------------------------------------------- RPCServer
\* the reply is assigned only when the server reports no error
WrapperAssignsOnSuccess(reply, ret, err) ==
    [reply |-> IF ret # Null /\ err = Null THEN ret ELSE reply,
     returned |-> err]

\* ret, err := m.Server.Method(ctx, args); if ret != nil { *reply = *ret };
\* return err -- the body of each of the five wrappers
Wrapper(reply, ret, err) ==
    [reply |-> IF ret # Null THEN ret ELSE reply, returned |-> err]

\* FindLogs, GetMessageResult, GetAssertionCount, GetVMInfo, CallMessage:
\* called with a reply the caller allocated, zero or holding an older
\* result, the server returning a result or nil and an error or nil
RPCServerCall ==
    /\ \E method \in {"FindLogs", "GetMessageResult", "GetAssertionCount",
                       "GetVMInfo", "CallMessage"} :
         \E reply \in [value : 0..2, of : {method}],
            ret \in {Null} \cup [value : 1..2, of : {method}],
            err \in {Null, [msg |-> "context canceled"],
                     [msg |-> "no such message"]} :
            LET done == Wrapper(reply, ret, err)
            IN  rpcCall' = [err |-> err, before |-> reply, method |-> method,
                            reply |-> done.reply, ret |-> ret,
                            returned |-> done.returned]
    /\ UNCHANGED <<messageVars, logsCall, registryVars, retryableVars,
                   bridgerCall>>

NextRPCServer == RPCServerCall

SpecRPCServer == InitRegistry /\ [][NextRPCServer]_vars

\* a caller that awaits every call: all operations, one at a time
Next ==
    \/ \E c \in Awaited : Status(c)
    \/ \E c \in Awaited : GetOutboxProof(c)
    \/ \E c \in Awaited : WaitUntilReadyToExecute(c)
    \/ \E c \in Awaited : Execute(c)
    \/ \E c \in Awaited : LatestConfirmed(c)
    \/ \E c \in Awaited : GetLogs(c)
    \/ \E c \in Awaited : GetBlockByHash(c)
    \/ \E c \in Awaited : Spent(c)
    \/ \E c \in Awaited : ConstructOutboxProof(c)
    \/ \E c \in Awaited : ExecuteTransaction(c)
    \/ \E c \in Awaited : Wait(c)
    \/ \E c \in Awaited : QueryFails(c)
    \/ ConfirmNode
    \/ AdvanceL1
    \/ OutboxExecute

Spec == Init /\ [][Next]_vars

\* concurrent calls of status() and getOutboxProof(); a waitUntilReadyToExecute
\* or an execute touches the instance only through these two
NextConcurrent ==
    \/ \E c \in Calls : Status(c)
    \/ \E c \in Calls : GetOutboxProof(c)
    \/ \E c \in Calls : LatestConfirmed(c)
    \/ \E c \in Calls : GetLogs(c)
    \/ \E c \in Calls : GetBlockByHash(c)
    \/ \E c \in Calls : Spent(c)
    \/ \E c \in Calls : ConstructOutboxProof(c)
    \/ \E c \in Calls : QueryFails(c)
    \/ ConfirmNode
    \/ AdvanceL1
    \/ OutboxExecute

SpecConcurrent == Init /\ [][NextConcurrent]_vars

\* the operations of an instance however fromEvent built it
SpecFromEvent == InitFromEvent /\ [][Next]_vars

\* the operations of an instance whatever event it was built from
SpecAnyEvent == InitAnyEvent /\ [][Next]_vars

\* one step of the poll loop of waitUntilReadyToExecute: a chain query of its
\* status() answered, or its delay elapsed
PollStep(c) ==
    \/ LatestConfirmed(c)
    \/ GetLogs(c)
    \/ GetBlockByHash(c)
    \/ Spent(c)
    \/ Wait(c)

\* a waitUntilReadyToExecute() whose chain queries are all answered
NextWait ==
    \/ \E c \in Awaited : WaitUntilReadyToExecute(c)
    \/ \E c \in Awaited : PollStep(c)
    \/ \E c \in Awaited : Cancel(c)
    \/ ConfirmNode
    \/ AdvanceL1
    \/ OutboxExecute

\* the event loop runs every answered query and every elapsed timer
SpecWait ==
    /\ Init
    /\ [][NextWait]_vars
    /\ \A c \in Awaited : WF_vars(PollStep(c))

\* ======================================================== the properties
Position == event.position

\* call c of operation op has returned normally
Returned(c, op) == call[c].op = op /\ call[c].pc = "done"

\* call c fetched the origin-chain block of the assertion it looked up
Fetched(c) == call[c].l2Block # NoBlock

\* some confirmed assertion commits the root of an outbox tree of that size
ConfirmedSize(size) == \E n \in 1..Len(nodes) : nodes[n].sendCount = size

\* ---- C1
\* C1: a status() that fetched a block with send count c returns UNCONFIRMED
\* if position >= c (p = c included) and, if position < c, EXECUTED when
\* outbox.spent(position) was true and CONFIRMED when it was false; one that
\* found the root cached returns by outbox.spent likewise.
C1_StatusByCount ==
    \A c \in Calls : Returned(c, "status") =>
        LET r == call[c]
            bySpent == IF r.spent THEN EXECUTED ELSE CONFIRMED
        IN  /\ r.spent => spent
            /\ (Fetched(c) /\ Position >= r.l2Block.sendCount) =>
                  r.status = UNCONFIRMED
            /\ (Fetched(c) /\ Position < r.l2Block.sendCount) =>
                  /\ r.status = bySpent
                  /\ sendRootSize = r.l2Block.sendCount
            /\ ~Fetched(c) =>
                  /\ r.status = bySpent
                  /\ Position < sendRootSize
                  /\ ConfirmedSize(sendRootSize)

\* a status() returned UNCONFIRMED on a send count equal to the position
C1_Witness ==
    \E c \in Calls :
        /\ Returned(c, "status")
        /\ call[c].status = UNCONFIRMED
        /\ call[c].l2Block.sendCount = Position
        /\ Position > 0

\* ---- C2
\* call c is handed a status in this step
StatusReturns(c) == call[c].status = NOT_FOUND /\ call'[c].status # NOT_FOUND

\* C2: a status() never returns a lower status than one returned before it:
\* after CONFIRMED no UNCONFIRMED, after EXECUTED neither CONFIRMED nor
\* UNCONFIRMED.
C2_StatusMonotonic ==
    [][\A c \in Calls : StatusReturns(c) => call'[c].status >= maxStatus]_vars

\* one status() returned CONFIRMED and a later one EXECUTED
C2_Witness ==
    /\ maxStatus = EXECUTED
    /\ \E c, d \in Calls :
         /\ Returned(c, "status") /\ call[c].status = CONFIRMED
         /\ Returned(d, "status") /\ call[d].status = EXECUTED

\* ---- C3
\* call c runs the NodeConfirmed search in this step and no log of the node it
\* looked up lies in the searched window
SearchFindsNoLog(c) ==
    /\ call[c].pc = "getLogs"
    /\ call'[c].pc # "getLogs"
    /\ call'[c].err # Error("provider request failed")
    /\ ~\E n \in 1..Len(nodes) :
          /\ n = call[c].latestConfirmedNode
          /\ nodes[n].l1Block >= l1BlockNumber - WindowBlocks

\* C3 as stated: when no NodeConfirmed log of the latest confirmed assertion
\* is found in the searched window, status() returns UNCONFIRMED and does not
\* throw.
C3_AsStated ==
    [][\A c \in Calls : (SearchFindsNoLog(c) /\ call[c].op = "status") =>
          (call'[c].pc = "done" /\ call'[c].status = UNCONFIRMED)]_vars

\* C3 amended: when no NodeConfirmed log of the latest confirmed assertion is
\* found in the searched window, status() throws Error('missing logs'): it
\* returns no status and leaves the cache as it was.
C3_MissingLogsThrows ==
    [][\A c \in Calls : (SearchFindsNoLog(c) /\ call[c].op = "status") =>
          /\ call'[c].pc = "failed"
          /\ call'[c].err = Error("missing logs")
          /\ call'[c].status = NOT_FOUND
          /\ UNCHANGED <<sendRootHash, sendRootSize>>]_vars

\* a status() failed on an assertion whose log is older than the window
C3_Witness ==
    \E c \in Calls :
        /\ call[c].op = "status"
        /\ call[c].pc = "failed"
        /\ call[c].err = Error("missing logs")
        /\ call[c].latestConfirmedNode > 0

\* ---- C4
\* C4: a status() or getOutboxProof() whose fetched block reports another send
\* root than the assertion event committed fails with an error: it is handed
\* no status and no proof, and the cache is left unset.
C4_SendRootMismatchThrows ==
    /\ [](\A c \in Calls :
            (/\ Fetched(c)
             /\ call[c].l2Block.sendRoot # call[c].parsedLog.sendRoot) =>
                /\ call[c].pc = "failed"
                /\ call[c].err = Error("send roots")
                /\ call[c].status = NOT_FOUND
                /\ call[c].proof = NoProof)
    /\ [][\A c \in Calls :
            (call[c].pc = "getBlockByHash"
               /\ call'[c].err = Error("send roots")) =>
                (sendRootHash' = NoHash /\ sendRootSize' = NoSize)]_vars

\* a call failed on a mismatching block whose send count covers the position,
\* the cache being unset
C4_Witness ==
    \E c \in Calls :
        /\ call[c].op \in {"status", "getOutboxProof"}
        /\ call[c].err = Error("send roots")
        /\ call[c].l2Block.sendCount > Position
        /\ sendRootHash = NoHash
        /\ sendRootSize = NoSize

\* ---- C5
\* call c has requested executeTransaction from the signer
Submitting(c) ==
    call[c].pc = "executeTransaction" \/ Returned(c, "execute")

\* C5: an execute() submits executeTransaction only when its status() returned
\* CONFIRMED; on UNCONFIRMED or EXECUTED it fails, having requested neither a
\* proof nor a transaction.
C5_ExecuteOnlyConfirmed ==
    \A c \in Calls : call[c].op = "execute" =>
        /\ Submitting(c) => call[c].status = CONFIRMED
        /\ call[c].status \in {UNCONFIRMED, EXECUTED} =>
              /\ call[c].pc = "failed"
              /\ call[c].proof = NoProof

\* an execute() whose status() returned CONFIRMED requested the transaction
C5_Witness ==
    \E c \in Calls :
        /\ call[c].op = "execute"
        /\ call[c].pc = "executeTransaction"
        /\ call[c].status = CONFIRMED

\* ---- C6
\* the condition a failure names: its kind and message, without the values
\* the message carries
Condition(e) == <<e.kind, e.msg>>

\* C6 as stated: execute() on an EXECUTED message fails with an 'already
\* executed' condition that differs from the failure condition of an
\* UNCONFIRMED message.
C6_AsStated ==
    \A c \in Calls :
        (call[c].op = "execute" /\ call[c].status = EXECUTED) =>
            /\ call[c].pc = "failed"
            /\ call[c].err.attempted = EXECUTED
            /\ call[c].err.required = CONFIRMED
            /\ Condition(call[c].err) #
                  Condition(CannotExecuteError(UNCONFIRMED))

\* C6 amended: execute() on an EXECUTED message fails with the same
\* ArbTsError 'Cannot execute message' condition as on an UNCONFIRMED one;
\* the failure carries the attempted status (EXECUTED) and the required one
\* (CONFIRMED), and the attempted status is all that tells the two apart.
C6_SameConditionCarriesStates ==
    \A c \in Calls :
        (call[c].op = "execute" /\ call[c].status = EXECUTED) =>
            /\ call[c].pc = "failed"
            /\ call[c].err.kind = "ArbTsError"
            /\ call[c].err.attempted = EXECUTED
            /\ call[c].err.required = CONFIRMED
            /\ Condition(call[c].err) =
                  Condition(CannotExecuteError(UNCONFIRMED))
            /\ call[c].err # CannotExecuteError(UNCONFIRMED)

\* an execute() failed on an EXECUTED message
C6_Witness ==
    \E c \in Calls :
        /\ call[c].op = "execute"
        /\ call[c].status = EXECUTED
        /\ call[c].pc = "failed"

\* ---- C7
\* call c has requested a proof from the oracle, or holds the one returned
HasProof(c) == call[c].proof # NoProof

NodeNotConfirmed == ArbTsError("Node not confirmed, cannot get proof.")

\* C7: getOutboxProof() requests a proof from the oracle only once a root that
\* covers the position is cached, a root some confirmed assertion commits;
\* when the latest confirmed assertion it looked up does not cover the
\* position it fails with 'Node not confirmed, cannot get proof.', and a call
\* that failed so requested no proof.
C7_ProofOnlyWhenConfirmed ==
    \A c \in Calls :
        /\ HasProof(c) =>
              /\ call[c].op \in {"getOutboxProof", "execute"}
              /\ sendRootSize # NoSize
              /\ call[c].proof.size > Position
              /\ ConfirmedSize(call[c].proof.size)
        /\ (/\ call[c].op = "getOutboxProof"
            /\ Fetched(c)
            /\ call[c].l2Block.sendRoot = call[c].parsedLog.sendRoot
            /\ call[c].l2Block.sendCount <= Position) =>
              (call[c].pc = "failed" /\ call[c].err = NodeNotConfirmed)
        /\ call[c].err = NodeNotConfirmed =>
              /\ ~HasProof(c)
              /\ Fetched(c)
              /\ call[c].l2Block.sendCount <= Position

\* a getOutboxProof() failed on a confirmed assertion that does not cover the
\* position
C7_Witness ==
    \E c \in Calls :
        /\ call[c].op = "getOutboxProof"
        /\ call[c].err = NodeNotConfirmed
        /\ call[c].parsedLog.nodeNum > 0
        /\ ~HasProof(c)

\* ---- C8
\* the outbox accepts the proof: it is a path of the message's leaf in the
\* tree whose root some confirmed assertion committed
Verifies(proof) ==
    /\ proof.leaf = Position
    /\ proof.leaf < proof.size
    /\ \E n \in 1..Len(nodes) : nodes[n].sendRoot = RootAtSize(proof.size)

\* C8: a proof is built for the tree size held in the cache and for the leaf
\* at the message's position, whatever roots later assertions have
\* committed, and it verifies against the cached committed root.
C8_ProofForCachedSize ==
    \A c \in Calls : HasProof(c) =>
        /\ call[c].proof = [size |-> sendRootSize, leaf |-> Position]
        /\ sendRootHash = RootAtSize(call[c].proof.size)
        /\ Verifies(call[c].proof)

\* a proof built for the cached size while the latest confirmed assertion
\* commits a larger root
C8_Witness ==
    \E c \in Calls :
        /\ HasProof(c)
        /\ call[c].proof.size = sendRootSize
        /\ LastCount > sendRootSize

\* ---- C9
CacheSet == sendRootHash # NoHash

\* the steps of updateSendRoot past its check of the cache
Resolving(c) == call[c].pc \in {"latestConfirmed", "getLogs", "getBlockByHash"}

C10_WaitReturnsWhenReady ==
    \A c \in Calls : call[c].op = "waitUntilReadyToExecute" =>
        /\ call[c].pc = "done" => call[c].status \in {CONFIRMED, EXECUTED}
        /\ call[c].status = UNCONFIRMED => call[c].pc = "wait"
        /\ call[c].pc = "wait" => call[c].status = UNCONFIRMED

\* a waitUntilReadyToExecute() returned on a poll that resolved the root
\* itself
C10_Witness ==
    \E c \in Calls :
        /\ Returned(c, "waitUntilReadyToExecute")
        /\ call[c].status = CONFIRMED
        /\ Fetched(c)

\* ---- C11
\* call c is a waitUntilReadyToExecute() that has not completed
WaitRunning(c) ==
    call[c].op = "waitUntilReadyToExecute" /\ ~Idle(c)

\* the latest confirmed assertion commits a send count above the position
Covered == LastCount > Position

\* the failures of updateSendRoot that are not a failed query
IntegrityErrors ==
    {UnrecognizedNetwork, Error("missing logs"),
     Error("send roots")}

\* C11 as stated: with every query answered and the poll loop scheduled
\* fairly, a waitUntilReadyToExecute() running once the chain has confirmed
\* an assertion covering the position eventually returns.
C11_AsStated ==
    \A c \in Awaited :
        (WaitRunning(c) /\ Covered) ~> Returned(c, "waitUntilReadyToExecute")

\* C11 amended: such a waitUntilReadyToExecute() eventually returns or throws
\* one of updateSendRoot's errors ('Unrecognized network', 'missing logs',
\* 'send roots'); it does not poll forever.
C11_WaitReturnsOrThrows ==
    \A c \in Awaited :
        (WaitRunning(c) /\ Covered) ~>
            \/ Returned(c, "waitUntilReadyToExecute")
            \/ /\ call[c].pc = "failed"
               /\ call[c].err \in IntegrityErrors

\* a waitUntilReadyToExecute() returned after at least one retry delay
C11_Witness ==
    \E c \in Awaited :
        /\ Returned(c, "waitUntilReadyToExecute")
        /\ call[c].delay # NoDelay
        /\ Covered

\* ---- C12
\* call c invokes status() in this step
StartsPoll(c) ==
    \/ call'[c].pc = "latestConfirmed" /\ call[c].pc # "latestConfirmed"
    \/ call'[c].pc = "spent" /\ call[c].pc \notin {"getBlockByHash", "spent"}

\* call c is in wait(ms) with ms the retry delay its caller gave
Delaying(r) == r.pc = "wait" /\ r.delay = r.retryDelay

\* C12: in waitUntilReadyToExecute() a poll starts only at the invocation or
\* when a wait of the caller-given retry delay has elapsed; a poll that is
\* not ready is followed by that wait, the wait is entered only from a poll
\* and left only into the next poll: one delay between two polls.
C12_OneDelayBetweenPolls ==
    [][\A c \in Calls : call'[c].op = "waitUntilReadyToExecute" =>
          /\ StartsPoll(c) => (Idle(c) \/ Delaying(call[c]))
          /\ (StatusReturns(c) /\ call'[c].status \notin {CONFIRMED, EXECUTED})
                => Delaying(call'[c])
          /\ (call'[c].pc = "wait" /\ call[c].pc # "wait") => StatusReturns(c)
          /\ (call[c].pc = "wait" /\ call'[c] # call[c]) => StartsPoll(c)]_vars

\* the second poll of a waitUntilReadyToExecute() is under way, its delay of
\* twice the default having elapsed
C12_Witness ==
    \E c \in Calls :
        /\ call[c].op = "waitUntilReadyToExecute"
        /\ call[c].pc = "latestConfirmed"
        /\ call[c].delay = 2 * DefaultRetryDelay

\* ---- C13
\* C13: once its caller has cancelled a running waitUntilReadyToExecute(),
\* the call starts no further poll, and it completes whether or not the
\* message ever becomes CONFIRMED or EXECUTED.
C13_AsStated ==
    /\ [][\A c \in Awaited :
            (WaitRunning(c) /\ call[c].cancelled) => ~StartsPoll(c)]_vars
    /\ \A c \in Awaited : (WaitRunning(c) /\ call[c].cancelled) ~> Idle(c)

\* ---- C14
\* how many of the fetched logs have the given index
Matches(events, index) ==
    Cardinality({k \in 1..Len(events) : events[k].indexInBatch = index})

\* C14: a completed getL2ToL1MessageLogs given an indexInBatch (0 included)
\* has failed with 'More than one indexed item found in batch.' when several
\* fetched logs have that index, returned exactly the one log that has it,
\* or the empty list when none has; given no indexInBatch it returned every
\* fetched log, in order.
C14_IndexDisambiguates ==
    logsCall.pc \in {"done", "failed"} =>
        LET r == logsCall
            n == Matches(r.events, r.indexInBatch)
        IN  IF r.indexInBatch = Undefined
            THEN r.pc = "done" /\ r.result = r.events
            ELSE /\ n > 1 =>
                      /\ r.pc = "failed"
                      /\ r.err = ArbTsError(
                           "More than one indexed item found in batch.")
                 /\ n = 1 =>
                      /\ r.pc = "done"
                      /\ Len(r.result) = 1
                      /\ r.result[1].indexInBatch = r.indexInBatch
                      /\ \E k \in 1..Len(r.events) : r.events[k] = r.result[1]
                 /\ n = 0 => (r.pc = "done" /\ r.result = <<>>)

\* index 0 was asked for and picked the one log that has it out of several
C14_Witness ==
    /\ logsCall.pc = "done"
    /\ logsCall.indexInBatch = 0
    /\ Len(logsCall.events) > 1
    /\ Len(logsCall.result) = 1

\* ---- C15
\* C15: an instance fromEvent built from a provider is a reader: no call on
\* it is an execute() and none ever requests executeTransaction; the
\* instance is a writer, on which execute() can run, only when fromEvent was
\* given a signer.
C15_ReaderNeverSubmits ==
    /\ FromEvent(l1SignerOrProvider) = "L2ToL1MessageWriter" <=>
          l1SignerOrProvider = "signer"
    /\ \A c \in Calls :
          (call[c].op = "execute" \/ Submitting(c)) =>
              l1SignerOrProvider = "signer"

\* a reader built from a provider has run getOutboxProof() to its end
C15_Witness ==
    /\ l1SignerOrProvider = "provider"
    /\ \E c \in Calls : Returned(c, "getOutboxProof") /\ HasProof(c)

\* ---- C16
\* C16 as stated: a status() returns NOT_FOUND exactly when the instance's
\* event was never emitted, and UNCONFIRMED, CONFIRMED or EXECUTED for an
\* emitted one.
C16_AsStated ==
    \A c \in Calls : Returned(c, "status") =>
        /\ call[c].status = NOT_FOUND <=> ~emitted
        /\ emitted => call[c].status \in {UNCONFIRMED, CONFIRMED, EXECUTED}

\* ---- C17
\* a registration call is made in this step
Registers(fn) == regCall'.n = regCall.n + 1 /\ regCall'.fn = fn

\* the registration call of this step threw
Rejected == regCall'.err.kind = "ArbSdkError"

\* the call of this step was given a parent and, in the table before the
\* call, the id of that parent is present or its isCustom flag is not true
BadParent(table) ==
    /\ regCall'.parent # NoNetwork
    /\ \/ regCall'.parent.chainID \in DOMAIN table
       \/ ~regCall'.parent.isCustom

BadChild(table) ==
    \/ regCall'.child.chainID \in DOMAIN table
    \/ ~regCall'.child.isCustom

\* C17: addCustomNetwork throws when the id of customL1Network is in
\* l1Networks or that of customL2Network in l2Networks, addCustomChain when
\* the id of customParentChain is in parentChains or that of customChain in
\* chains, and both when isCustom of the child or of the supplied parent is
\* not true; the error names the offending chain id.
C17_RejectsDuplicateOrNotCustom ==
    [][/\ (Registers("addCustomNetwork") /\ BadParent(l1Networks)) =>
             (Rejected /\ regCall'.err.chainID = regCall'.parent.chainID)
       /\ (Registers("addCustomNetwork") /\ BadChild(l2Networks)) => Rejected
       /\ (Registers("addCustomNetwork") /\ ~BadParent(l1Networks)
              /\ BadChild(l2Networks)) =>
             regCall'.err.chainID = regCall'.child.chainID
       /\ (Registers("addCustomChain") /\ BadParent(parentChains)) =>
             (Rejected /\ regCall'.err.chainID = regCall'.parent.chainID)
       /\ (Registers("addCustomChain") /\ BadChild(chains)) => Rejected
       /\ (Registers("addCustomChain") /\ ~BadParent(parentChains)
              /\ BadChild(chains)) =>
             regCall'.err.chainID = regCall'.child.chainID]_vars

\* an addCustomChain was rejected for the id of a custom chain that an
\* earlier call had registered
C17_Witness ==
    /\ regCall.fn = "addCustomChain"
    /\ regCall.err = ArbSdkError("Chain ${chainID} already included.",
                                 regCall.child.chainID)
    /\ regCall.child.isCustom
    /\ regCall.child.chainID \in {1337, 412346}
    /\ regCall.parent # NoNetwork

\* ---- C18
\* the entry a lookup function reads: l1Networks for getL1Network, l2Networks
\* and after it chains for getL2Network, parentChains for getParentChain,
\* chains for getChain
StoredUnder(fn, id) ==
    CASE fn = "getL1Network" -> Entry(Tables, l1Networks, id)
      [] fn = "getL2Network" ->
            IF id \in DOMAIN l2Networks
            THEN Entry(Tables, l2Networks, id)
            ELSE Entry(Tables, chains, id)
      [] fn = "getParentChain" -> Entry(Tables, parentChains, id)
      [] OTHER -> Entry(Tables, chains, id)

Unrecognized(e) ==
    e.kind = "ArbSdkError" /\ e.msg \in {"Unrecognized network ${chainID}.",
                                         "Unrecognized ParentChain ${chainID}.",
                                         "Unrecognized Chain ${chainID}."}

\* the lookup recorded agrees with the tables it was made in
LookupAgrees ==
    /\ StoredUnder(lookup.fn, lookup.chainID) # NoNetwork =>
          /\ lookup.err = NoRegErr
          /\ lookup.network = StoredUnder(lookup.fn, lookup.chainID)
    /\ StoredUnder(lookup.fn, lookup.chainID) = NoNetwork =>
          /\ lookup.network = NoNetwork
          /\ Unrecognized(lookup.err)
          /\ lookup.err.chainID = lookup.chainID

\* C18: a lookup of a chain id returns the descriptor stored under that id
\* in the table of the function, fails with an 'Unrecognized ...' error when
\* there is none, and a descriptor it returns has the id asked for.
C18_AsStated ==
    [][lookup' # lookup =>
          /\ LookupAgrees'
          /\ lookup'.network # NoNetwork =>
                lookup'.network.chainID = lookup'.chainID]_vars

\* ---- C19
\* the id is in one of the tables
Known(id) ==
    id \in DOMAIN l1Networks \cup DOMAIN l2Networks
            \cup DOMAIN parentChains \cup DOMAIN chains

\* the partner the child of this step's call declares is in no table before
\* the call and is not the parent the call supplies
UnknownPartner ==
    /\ ~Known(regCall'.child.partnerChainID)
    /\ \/ regCall'.parent = NoNetwork
       \/ regCall'.parent.chainID # regCall'.child.partnerChainID

NotRecognized(e) ==
    /\ e.kind = "ArbSdkError"
    /\ e.msg \in
         {"Network ${chainID}'s partner network, ${partnerChainID}, not recognized",
          "Chain ${chainID}'s partner parent chain, ${parentChains.partnerChainID}, not recognized."}

\* C19: addCustomNetwork and addCustomChain reject a child whose partner is
\* neither registered nor the parent supplied with it, and with the 'partner
\* ... not recognized' error when nothing else is wrong with the call.
C19_AsStated ==
    [][/\ (Registers("addCustomNetwork") /\ UnknownPartner) => Rejected
       /\ (Registers("addCustomNetwork") /\ UnknownPartner
              /\ ~BadParent(l1Networks) /\ ~BadChild(l2Networks)) =>
             NotRecognized(regCall'.err)
       /\ (Registers("addCustomChain") /\ UnknownPartner) => Rejected
       /\ (Registers("addCustomChain") /\ UnknownPartner
              /\ ~BadParent(parentChains) /\ ~BadChild(chains)) =>
             NotRecognized(regCall'.err)]_vars

\* ---- C20
\* every entry of the table before this step is an entry after it, of a
\* descriptor with the same fields
DescriptorsKept(table, tableNext) ==
    \A id \in DOMAIN table :
        /\ id \in DOMAIN tableNext
        /\ heap'[tableNext[id]] = heap[table[id]]

\* C20 as stated: a registration call, thrown or not, changes no field of a
\* descriptor that was in a table before it, partnerChainIDs included.
C20_AsStated ==
    [][(Registers("addCustomNetwork") \/ Registers("addCustomChain")) =>
          /\ DescriptorsKept(l1Networks, l1Networks')
          /\ DescriptorsKept(l2Networks, l2Networks')
          /\ DescriptorsKept(parentChains, parentChains')
          /\ DescriptorsKept(chains, chains')]_vars

\* every entry of the table before this step is the same object after it,
\* with the same fields or, when it is the entry of the partner of the child
\* that this step's call registered, with the id of that child appended to
\* partnerChainIDs
KeptButPartners(table, tableNext) ==
    \A id \in DOMAIN table :
        /\ id \in DOMAIN tableNext
        /\ tableNext[id] = table[id]
        /\ \/ heap'[table[id]] = heap[table[id]]
           \/ /\ heap'[table[id]] =
                    [heap[table[id]] EXCEPT
                        !.partnerChainIDs = Append(@, regCall'.child.chainID)]
              /\ id = regCall'.child.partnerChainID
              /\ ~Rejected

\* C20: a registration call leaves every descriptor that was in a table
\* before it in place and changes no field of it, except that a call that
\* registers a child appends the id of the child to partnerChainIDs of the
\* entry of its partner; a call that throws changes none.
C20_OnlyPartnerAppended ==
    [][(Registers("addCustomNetwork") \/ Registers("addCustomChain")) =>
          /\ KeptButPartners(l1Networks, l1Networks')
          /\ KeptButPartners(l2Networks, l2Networks')
          /\ KeptButPartners(parentChains, parentChains')
          /\ KeptButPartners(chains, chains')]_vars

\* the second registration call added a child of the built-in network 1,
\* whose list the first call had left as loaded or had appended to
C20_Witness ==
    /\ regCall.n = 2
    /\ regCall.err = NoRegErr
    /\ regCall.child.partnerChainID = 1
    /\ Len(heap[BuiltinRef(1)].partnerChainIDs) >= 3
    /\ heap[BuiltinRef(1)].partnerChainIDs[Len(heap[BuiltinRef(1)].partnerChainIDs)]
          = regCall.child.chainID

\* ---- C21
\* the ids under which addCustomNetwork calls have stored a descriptor
CustomIn(table) == {id \in DOMAIN table : table[id][1] = "call"}

WithPartnerAppended(network, descriptor, id) ==
    \/ network = descriptor
    \/ /\ network = [descriptor EXCEPT
                        !.partnerChainIDs = Append(@, regCall'.child.chainID)]
       /\ id = regCall'.child.partnerChainID
       /\ ~Rejected

C22_AsStated ==
    [][(Registers("addCustomChain") /\ ~Rejected) =>
          /\ getChain(regCall.child.chainID)' = Resolved(regCall'.child)
          /\ getParentChain(regCall.child.partnerChainID)'.err = NoRegErr
          /\ getParentChain(regCall.child.partnerChainID)'.network.chainID =
                regCall'.child.partnerChainID
          /\ (/\ regCall'.parent # NoNetwork
              /\ regCall'.parent.chainID = regCall'.child.partnerChainID) =>
                /\ parentChains'[regCall'.child.partnerChainID] =
                      ArgRef(regCall'.n, "parent")
                /\ getParentChain(regCall.child.partnerChainID)'.network =
                      heap'[ArgRef(regCall'.n, "parent")]]_vars

\* ---- C23
\* C23: getL2Network given a provider rejects with the provider's failure
\* when the provider does not report its chain id, whatever the tables
\* hold; given the id, it returns the l2Networks entry when there is one,
\* the chains entry only when l2Networks has none, and rejects with
\* 'Unrecognized network' when neither table has the id.
C23_FallbackOnNotFoundOnly ==
    [][(lookup' # lookup /\ lookup'.provider # <<>>) =>
          LET first == lookup'.provider[1]
              id == first.chainId
          IN  /\ ~first.ok =>
                    /\ lookup'.err = ProviderError
                    /\ lookup'.network = NoNetwork
              /\ (first.ok /\ id \in DOMAIN l2Networks) =>
                    /\ lookup'.err = NoRegErr
                    /\ lookup'.network = heap[l2Networks[id]]
              /\ (first.ok /\ id \notin DOMAIN l2Networks
                           /\ id \in DOMAIN chains) =>
                    /\ lookup'.err = NoRegErr
                    /\ lookup'.network = heap[chains[id]]
              /\ (first.ok /\ id \notin DOMAIN l2Networks
                           /\ id \notin DOMAIN chains) =>
                    /\ lookup'.network = NoNetwork
                    /\ lookup'.err =
                          ArbSdkError("Unrecognized network ${chainID}.", id)]_vars

\* the provider failed to report its chain id, would have reported the id
\* of a registered custom chain if asked again, and the lookup rejected
C23_Witness ==
    /\ lookup.provider # <<>>
    /\ ~lookup.provider[1].ok
    /\ lookup.provider[2].ok
    /\ lookup.provider[2].chainId \in DOMAIN chains
    /\ chains[lookup.provider[2].chainId][1] = "call"
    /\ lookup.err = ProviderError

\* ---- C30
\* C30: no step of status() or getOutboxProof(), through which every
\* operation acts on the instance, changes the event or the signer or
\* provider the instance was built with; the fields a step changes are
\* sendRootHash and sendRootSize, and neither goes back to undefined once
\* it is set.
C30_OnlyCacheMutated ==
    [][/\ event' = event
       /\ l1SignerOrProvider' = l1SignerOrProvider
       /\ sendRootHash # NoHash => sendRootHash' # NoHash
       /\ sendRootSize # NoSize => sendRootSize' # NoSize]_vars

\* with the cache set, a call that had begun to resolve before fetched the
\* block of an assertion that does not cover the position
C30_Witness ==
    /\ sendRootHash # NoHash
    /\ \E c \in Calls :
          /\ Fetched(c)
          /\ call[c].l2Block.sendRoot = call[c].parsedLog.sendRoot
          /\ call[c].l2Block.sendCount <= Position

\* ---- C24
\* C24: when createRetryableTicket with error-triggering gas parameters
\* reverts, as a gas estimate or as a static call, tryParseError of the
\* error thrown returns the ten fields of the ticket the inbox was given:
\* sender, destination, call value, deposit, submission cost, both refund
\* addresses, gas limit, max fee per gas and the calldata bytes.
C24_RevertDataRoundTrips ==
    [][(revert.submitted # Null /\ ~revert.tried /\ revert'.tried) =>
          /\ ~revert'.threw
          /\ revert'.parsed = revert.submitted]_vars

\* the revert of a static call of a ticket with calldata and two different
\* refund addresses was parsed
C24_Witness ==
    /\ revert.func = "callStatic"
    /\ revert.tried
    /\ revert.parsed # Null
    /\ Len(revert.parsed.data) = MaxData
    /\ revert.parsed.excessFeeRefundAddress #
          revert.parsed.callValueRefundAddress
    /\ revert.parsed.deposit = 137 + 1618

\* ---- C25
\* C25: tryParseError of an error that carries no RetryableData revert data
\* returns null and does not throw.
C25_NullOnUnrelatedError ==
    [][(revert.error \in UnrelatedErrors /\ ~revert.tried
          /\ revert'.tried) =>
          /\ ~revert'.threw
          /\ revert'.parsed = Null]_vars

\* an error with the revert data of Error(string) was handed to
\* tryParseError, which returned null
C25_Witness ==
    /\ revert.error \in UnrelatedErrors
    /\ revert.error.nested # Null
    /\ revert.tried
    /\ revert.parsed = Null
    /\ ~revert.threw

\* ---- C26
\* the gas limit estimated from the override of the request at percentage p
GasLimitAt(p) ==
    estimate([request.overrides.gasLimit EXCEPT !.percentIncrease = p],
             request.fees.gasEstimate)

GasLimitBase ==
    IF request.overrides.gasLimit.base # Undefined
    THEN request.overrides.gasLimit.base ELSE request.fees.gasEstimate

\* C26 as stated: the estimate of a fee parameter is base +
\* base*percentIncrease/100 truncated, raised to min when min is supplied
\* and larger; it is base at 0%, at least min, and strictly larger at
\* every larger percentIncrease.
C26_AsStated ==
    request # Null =>
        LET o == request.overrides.gasLimit
            inflated == GasLimitBase + (GasLimitBase * o.percentIncrease) \div 100
        IN  /\ request.l2GasLimit = Max(inflated, o.min)
            /\ o.percentIncrease = 0 => request.l2GasLimit = GasLimitBase
            /\ request.l2GasLimit >= o.min
            /\ \A p \in {0, 1, 50} :
                  p > o.percentIncrease => GasLimitAt(p) > request.l2GasLimit

\* C26: the estimate is base + base*percentIncrease/100 truncated, raised
\* to min when min is supplied and larger: a function of base,
\* percentIncrease and min, equal to base at 0% unless min is larger, never
\* below min, never smaller at a larger percentIncrease, and strictly
\* larger there when base*percentIncrease/100 truncated is larger and the
\* result is above min.
C26_EstimateNonDecreasing ==
    request # Null =>
        LET o == request.overrides.gasLimit
            inflated == GasLimitBase + (GasLimitBase * o.percentIncrease) \div 100
        IN  /\ request.l2GasLimit = Max(inflated, o.min)
            /\ request.l2GasLimit = GasLimitAt(o.percentIncrease)
            /\ (o.percentIncrease = 0 /\ o.min <= GasLimitBase) =>
                  request.l2GasLimit = GasLimitBase
            /\ request.l2GasLimit >= o.min
            /\ \A p \in {0, 1, 50} :
                  p > o.percentIncrease =>
                     /\ GasLimitAt(p) >= request.l2GasLimit
                     /\ (/\ (GasLimitBase * p) \div 100 >
                               (GasLimitBase * o.percentIncrease) \div 100
                         /\ GasLimitAt(p) > o.min) =>
                           GasLimitAt(p) > request.l2GasLimit

\* a gas limit estimated from base 1 at 0%, which 1% leaves at 1, with a
\* min supplied
C26_Witness ==
    /\ request # Null
    /\ request.overrides.gasLimit = [base |-> 1, percentIncrease |-> 0,
                                     min |-> 0]
    /\ request.l2GasLimit = 1
    /\ GasLimitAt(1) = 1
    /\ GasLimitAt(50) = 1

\* ---- C27
\* the fields of the request that no fee level enters
SubmittedAsRequested(parsed) ==
    /\ parsed.from = request.retryableData.sender
    /\ parsed.to = request.retryableData.destination
    /\ parsed.l2CallValue = request.retryableData.l2CallValue
    /\ parsed.data = request.retryableData.callData
    /\ parsed.excessFeeRefundAddress =
          request.retryableData.excessFeeRefundAddress
    /\ parsed.callValueRefundAddress =
          request.retryableData.callValueRefundAddress

SubmittedAsEstimated(parsed) ==
    /\ parsed.gasLimit = request.l2GasLimit
    /\ parsed.maxFeePerGas = request.l2MaxFeePerGas
    /\ parsed.maxSubmissionCost = request.l2SubmissionFee
    /\ parsed.deposit = request.l2GasCostsMaxTotal

DepositParsed ==
    revert.func = "deposit" /\ revert.error # Null /\ ~revert.tried /\ revert'.tried

Expired(t) == t.state = "created" /\ t.now > getTimeout(t)

StatusCalled == ticket'.call.n # ticket.call.n /\ ticket'.call.op = "status"

\* C28: a ticket created and not redeemed is reported EXPIRED by every
\* status() call made after creation + lifetime (604800 s) has passed, and
\* no step, a redeem or the passing of time, ends that.
C28_ExpiredForGood ==
    [][Expired(ticket) =>
          /\ getTimeout(ticket) = ticket.createdAt + 604800
          /\ StatusCalled => ticket'.call.result = "EXPIRED"
          /\ Expired(ticket')]_vars

\* the last status() call of a run returned EXPIRED, a second after the
\* deadline of a ticket created a second after the clock started
C28_Witness ==
    /\ ticket.call.n = MaxCalls
    /\ ticket.call.op = "status" /\ ticket.call.result = "EXPIRED"
    /\ ticket.createdAt = 1
    /\ ticket.now = getTimeout(ticket) + 1

\* ---- C29
RedeemCalled == ticket'.call.n # ticket.call.n /\ ticket'.call.op = "redeem"

RedeemSucceeded ==
    ticket.call.submitted /\ ~ticket'.call.submitted
       /\ ticket'.call.error = ""

\* C29: redeem() sends its transaction exactly when the ticket exists and
\* is unredeemed, which it is after a failed auto-redeem, and the
\* transaction succeeds only if the ticket still is so when it is executed;
\* called after expiry, after redemption, or when no ticket was created,
\* it fails with its own error, sends nothing and leaves the ticket as it
\* was.
C29_RedeemOnlyWhileUnredeemed ==
    [][/\ RedeemCalled =>
            IF ticket.state = "created" /\ ticket.now <= ticket.createdAt + 604800
            THEN ticket'.call.submitted /\ ticket'.call.error = ""
            ELSE /\ ~ticket'.call.submitted
                 /\ ticket'.call.error \notin {"", "transaction reverted"}
                 /\ ticket'.state = ticket.state
       /\ RedeemSucceeded =>
            /\ ticket.state = "created"
            /\ ticket.now <= ticket.createdAt + 604800
            /\ ticket'.state = "redeemed"]_vars

\* the second call of a run, a redeem(), succeeded at the deadline of a
\* ticket whose auto-redeem had failed
C29_Witness ==
    /\ ticket.call.op = "redeem" /\ ticket.call.result = "REDEEMED"
    /\ ticket.call.n = 2
    /\ ticket.state = "redeemed"
    /\ ticket.now = getTimeout(ticket)

\* ---- C31
RegistrationFailed == regCall'.n # regCall.n /\ regCall'.err # NoRegErr

\* C31 as stated: a registration call that throws leaves l1Networks,
\* l2Networks, parentChains and chains, and the descriptors they hold, as
\* they were before the call.
C31_AsStated ==
    [][RegistrationFailed =>
          UNCHANGED <<heap, l1Networks, l2Networks, parentChains, chains>>]_vars

\* ---- C32
\* the descriptors a table holds, by key
Stored(table) == [k \in DOMAIN table |-> heap[table[k]]]

AddedAtRuntime(table, loaded) ==
    {k \in DOMAIN table : k \notin DOMAIN loaded \/ table[k] # loaded[k]}

\* C32 as stated: every entry of the four tables is a descriptor with the
\* chain id it is stored under, and every entry added since the module was
\* loaded has isCustom set.
C32_AsStated ==
    /\ \A table \in {l1Networks, l2Networks, parentChains, chains} :
          \A k \in DOMAIN table : Stored(table)[k].chainID = k
    /\ \A k \in AddedAtRuntime(l1Networks, Table(BuiltinL1Networks)) :
          Stored(l1Networks)[k].isCustom
    /\ \A k \in AddedAtRuntime(l2Networks, Table(BuiltinL2Networks)) :
          Stored(l2Networks)[k].isCustom
    /\ \A k \in AddedAtRuntime(chains, Table(BuiltinL2Networks)) :
          Stored(chains)[k].isCustom
    /\ \A k \in AddedAtRuntime(parentChains, Table(BuiltinL1Networks)) :
          Stored(parentChains)[k].isCustom

\* ---- C33
NoDuplicates(list) ==
    \A i, j \in 1..Len(list) : list[i] = list[j] => i = j

\* C33 as stated: the partner of every entry of l2Networks is an entry of
\* l1Networks that lists it, and no partnerChainIDs list of a table holds
\* an id twice.
C33_AsStated ==
    /\ \A k \in DOMAIN l2Networks :
          LET partner == Stored(l2Networks)[k].partnerChainID
          IN  /\ partner \in DOMAIN l1Networks
              /\ Includes(Stored(l1Networks)[partner].partnerChainIDs, k)
    /\ \A table \in {l1Networks, l2Networks, parentChains, chains} :
          \A k \in DOMAIN table :
             NoDuplicates(Stored(table)[k].partnerChainIDs)

\* ---- C34
\* C34 as stated: an id getChain resolves is resolved by getL2Network, and
\* to the same descriptor.
C34_AsStated ==
    \A id \in ChainIDs :
        getChain(id).err = NoRegErr =>
           /\ getL2Network(id).err = NoRegErr
           /\ getL2Network(id).network = getChain(id).network

\* ---- C35
\* this step assigns the cache
CacheWritten == <<sendRootHash, sendRootSize>>' # <<sendRootHash, sendRootSize>>

\* C35: sendRootHash is set exactly when sendRootSize is; when set, the size
\* is above the position of the event and the pair is the send root and the
\* send count of a confirmed assertion; and the step that assigns the pair
\* is the one that fetched the origin-chain block of that assertion and
\* found its send root equal to the one of the NodeConfirmed log.
C35_CacheIsConfirmedRoot ==
    /\ []((sendRootHash = NoHash) <=> (sendRootSize = NoSize))
    /\ [](sendRootHash # NoHash =>
            /\ sendRootSize > event.position
            /\ \E n \in 1..Len(nodes) :
                  /\ nodes[n].sendRoot = sendRootHash
                  /\ nodes[n].sendCount = sendRootSize)
    /\ [][CacheWritten =>
            \E c \in Calls :
                /\ call[c].pc = "getBlockByHash"
                /\ call'[c].l2Block.sendRoot = call[c].parsedLog.sendRoot
                /\ nodes[call[c].parsedLog.blockHash].sendRoot = sendRootHash'
                /\ nodes[call[c].parsedLog.blockHash].sendCount = sendRootSize'
                /\ sendRootHash' = call'[c].l2Block.sendRoot
                /\ sendRootSize' = call'[c].l2Block.sendCount]_vars

\* the cache holds the root of the second of two confirmed assertions, the
\* first of which does not cover the position, while another call has
\* fetched a block that failed the send-root check
C35_Witness ==
    /\ sendRootHash # NoHash
    /\ Len(nodes) >= 2
    /\ nodes[1].sendCount <= event.position
    /\ nodes[2].sendRoot = sendRootHash /\ nodes[2].sendCount = sendRootSize
    /\ \E c \in Calls :
          /\ call[c].err = Error("send roots")
          /\ call[c].l2Block.sendRoot # call[c].parsedLog.sendRoot

\* ---- C36
\* C36: the request getDepositRequest returns is addressed to the inbox of
\* the chain; with ETH as native token its value is the amount and its data
\* the call depositEth(), with a custom fee token its value is 0 and its
\* data the call depositERC20(amount).
C36_DepositRequestByNativeToken ==
    [][bridgerCall'.fn = "getDepositRequest" =>
          LET l2Network == bridgerCall'.l2Network
              amount == bridgerCall'.params.amount
              txRequest == bridgerCall'.txRequest
          IN  /\ bridgerCall'.err = ""
              /\ txRequest.to = l2Network.ethBridge.inbox
              /\ l2Network.nativeToken = "undefined" =>
                    /\ txRequest.value = amount
                    /\ txRequest.data = <<"depositEth()">>
              /\ l2Network.nativeToken # "undefined" =>
                    /\ txRequest.value = "0"
                    /\ txRequest.data = <<"depositERC20(uint256)", amount>>]_vars

\* a deposit request of a non-zero amount on a chain with a custom fee token
C36_Witness ==
    /\ bridgerCall.fn = "getDepositRequest"
    /\ bridgerCall.l2Network.nativeToken = "0xfee"
    /\ bridgerCall.params.amount = "1000000000000000000"
    /\ bridgerCall.txRequest.value = "0"
    /\ bridgerCall.txRequest.to = "0x1nb0x2"

\* ---- C37
\* C37: on a chain with ETH as native token getApproveFeeTokenTxRequest and
\* approveFeeToken throw 'chain uses ETH as its native/fee token' and
\* approveFeeToken sends nothing; on a chain with a custom fee token the
\* request getApproveFeeTokenTxRequest returns is addressed to the token,
\* has value 0 and approves the inbox for the amount given, or for the
\* largest uint256 when none is given.
C37_ApproveFeeToken ==
    [][bridgerCall'.fn \in {"getApproveFeeTokenTxRequest", "approveFeeToken"} =>
          LET l2Network == bridgerCall'.l2Network
              params == bridgerCall'.params
              txRequest == bridgerCall'.txRequest
          IN  /\ l2Network.nativeToken = "undefined" =>
                    /\ bridgerCall'.err = "chain uses ETH as its native/fee token"
                    /\ bridgerCall'.sent = <<>>
                    /\ txRequest = Null
              /\ (/\ l2Network.nativeToken # "undefined"
                  /\ bridgerCall'.fn = "getApproveFeeTokenTxRequest") =>
                    /\ bridgerCall'.err = ""
                    /\ bridgerCall'.sent = <<>>
                    /\ txRequest.to = l2Network.nativeToken
                    /\ txRequest.value = "0"
                    /\ txRequest.data[1] = "approve"
                    /\ txRequest.data[2] = l2Network.ethBridge.inbox
                    /\ txRequest.data[3] =
                          IF params # Null /\ params.amount # "undefined"
                          THEN params.amount
                          ELSE "115792089237316195423570985008687907853269984665640564039457584007913129639935"]_vars

\* approveFeeToken was handed a ready transaction request on a chain with
\* ETH as native token, and threw
C37_Witness ==
    /\ bridgerCall.fn = "approveFeeToken"
    /\ bridgerCall.l2Network.nativeToken = "undefined"
    /\ bridgerCall.params.txRequest # Null
    /\ bridgerCall.err # ""
    /\ bridgerCall.sent = <<>>

\* ---- C38
\* C38: after a call of a wrapper the caller's reply holds the server's
\* result if that was not nil and still holds what it held before if it
\* was, and the error returned is the server's, nil or not, in both cases.
C38_ReplyCopiedWhenNotNil ==
    rpcCall.method # "" =>
        /\ rpcCall.ret # Null => rpcCall.reply = rpcCall.ret
        /\ rpcCall.ret = Null => rpcCall.reply = rpcCall.before
        /\ rpcCall.returned = rpcCall.err

\* the server of CallMessage returned a result together with an error, and
\* the reply, which held an older result, holds the new one
C38_Witness ==
    /\ rpcCall.method = "CallMessage"
    /\ rpcCall.ret # Null /\ rpcCall.err # Null
    /\ rpcCall.before.value = 1
    /\ rpcCall.reply.value = 2
    /\ rpcCall.returned = rpcCall.err
====
